---- MODULE Spec2Model ----
(***************************************************************************)
(* research-digest: the text normalizer, the dictionary matcher, the       *)
(* metadata extractor and the article ranker, as state machines over       *)
(* bounded inputs.                                                         *)
(*                                                                         *)
(* A text is a sequence of characters.  A character is a one-character     *)
(* string, or the name "U+xxxx" of a code point outside ASCII.  Python     *)
(* values are tagged records, so that None, a string, a list and an        *)
(* integer stay distinguishable and an exception is a value too.           *)
(***************************************************************************)
EXTENDS Integers, Sequences, FiniteSets, TLC

VARIABLES
    text,          \* the text handed to _normalize or _match_keywords
    normalized,    \* _normalize(text)
    renormalized,  \* _normalize(normalized)
    dictionary,    \* the dictionary handed to _match_keywords
    matches,       \* the result of _match_keywords(text, dictionary)
    article,       \* the article handed to the extractor
    tags,          \* the results of extract_geography/_methods/_stakeholders
    extracted,     \* the result of extract_all(article)
    boost_keywords,        \* ArticleRanker.boost_keywords
    boost_keywords_lower,  \* ArticleRanker.boost_keywords_lower
    articles,      \* the list handed to rank_articles, get_statistics or filter_new
    ranked,        \* the result of rank_articles(articles)
    stats,         \* the result of get_statistics(articles)
    top_n,         \* the n handed to get_top_articles, Unset for the default
    top,           \* the result of get_top_articles(articles, n)
    seen,          \* Deduplicator.seen: article id -> date first seen
    seen_file,     \* the content of the seen file, NoFile before the first save
    new_articles,  \* the result of the last filter_new call
    marked,        \* history: the articles passed to mark_as_seen so far
    last_call,     \* the operation of the Deduplicator that ran last
    backlog,       \* BacklogManager.backlog: the items article id -> entry, in order
    backlog_file,  \* the content of the backlog file, Unset before the first save
    called,        \* the last call on the BacklogManager, with its arguments and result
    cache,         \* MetadataFetcher.cache: DOI -> cached_at and metadata
    cache_file,    \* the content of the cache file, Unset before the first save
    now,           \* datetime.now(), in days
    queried,       \* the APIs queried by the last fetch_metadata, in order
    fetched        \* the result of the last fetch_metadata(article)

normVars == <<text, normalized, renormalized>>
matchVars == <<dictionary, matches>>
extractVars == <<article, tags, extracted>>
rankVars == <<boost_keywords, boost_keywords_lower, articles, ranked, stats,
              top_n, top>>
dedupVars == <<seen, seen_file, new_articles, marked, last_call>>
backlogVars == <<backlog, backlog_file, called>>
fetchVars == <<cache, cache_file, now, queried, fetched>>
vars == <<normVars, matchVars, extractVars, rankVars, dedupVars, backlogVars,
         fetchVars>>

(***************************************************************************)
(* Bounds of the model.                                                    *)
(***************************************************************************)
MaxTextLen == 3
MaxFragments == 2
MaxKeywords == 2
MaxBoost == 2
MaxArticles == 3
MaxScored == 4
MaxBatch == 2

(***************************************************************************)
(* Python values.                                                          *)
(***************************************************************************)
PyNone == [t |-> "None"]
PyStr(s) == [t |-> "str", v |-> s]
PyList(l) == [t |-> "list", v |-> l]
PyInt(n) == [t |-> "int", v |-> n]
Raise(e) == [t |-> "raise", v |-> e]
Unset == [t |-> "unset"]

\* Python truthiness: `not x` is ~Truthy(x).
Truthy(x) ==
    CASE x.t = "None" -> FALSE
      [] x.t = "str" -> x.v # <<>>
      [] x.t = "list" -> x.v # <<>>
      [] x.t = "int" -> x.v # 0

Range(s) == {s[i] : i \in 1..Len(s)}

\* The characters of a string literal.
Chars(s) == [i \in 1..Len(s) |-> SubSeq(s, i, i)]

(***************************************************************************)
(* Character classes of Python's str and re on the characters the model    *)
(* uses.                                                                   *)
(***************************************************************************)
UpperAscii == Chars("ABCDEFGHIJKLMNOPQRSTUVWXYZ")
LowerAscii == Chars("abcdefghijklmnopqrstuvwxyz")
DigitChars == Chars("0123456789")

\* U+0100 and U+0101 are A and a with macron (Latin Extended-A), U+2018,
\* U+2019, U+201C and U+201D the typographic quotes.
LatinExtendedA == {"U+0100", "U+0101"}
TypographicQuotes == {"U+2018", "U+2019", "U+201C", "U+201D"}
HyphenUnderscore == {"_", "-"}

\* \w of re on str: alphanumerics and the underscore.
WordChars ==
    Range(UpperAscii) \cup Range(LowerAscii) \cup Range(DigitChars)
        \cup {"_"} \cup LatinExtendedA

IsWordChar(c) == c \in WordChars

\* \s of re and the separators of str.split().
IsSpaceChar(c) == c \in {" ", "\t", "\n"}

\* the lowercase form of every character that has one
LowerOf ==
    [c \in Range(UpperAscii) \cup {"U+0100"} |->
        IF c = "U+0100" THEN "U+0101"
        ELSE LowerAscii[CHOOSE i \in 1..26 : UpperAscii[i] = c]]

LowerChar(c) == IF c \in DOMAIN LowerOf THEN LowerOf[c] ELSE c

\* str.lower()
str_lower(s) == [i \in 1..Len(s) |-> LowerChar(s[i])]

\* str.replace(old, new) for one-character old and new
str_replace(s, old, new) ==
    [i \in 1..Len(s) |-> IF s[i] = old THEN new ELSE s[i]]

\* re.sub(r'[_\-]+', ' ', text): every maximal run becomes one space
sub_hyphen_runs(s) ==
    LET keep == SelectSeq([i \in 1..Len(s) |-> i],
                          LAMBDA i : ~(/\ s[i] \in HyphenUnderscore
                                       /\ i > 1
                                       /\ s[i - 1] \in HyphenUnderscore))
    IN [k \in 1..Len(keep) |->
           IF s[keep[k]] \in HyphenUnderscore THEN " " ELSE s[keep[k]]]

\* re.sub(r"[\u2018\u2019\u201c\u201d]", "'", text)
sub_quotes(s) ==
    [i \in 1..Len(s) |-> IF s[i] \in TypographicQuotes THEN "'" ELSE s[i]]

\* re.sub(r'[^\w\s\u0100-\u017f]', ' ', text)
sub_punctuation(s) ==
    [i \in 1..Len(s) |->
        IF IsWordChar(s[i]) \/ IsSpaceChar(s[i]) \/ s[i] \in LatinExtendedA
        THEN s[i] ELSE " "]

\* str.split(): the maximal runs of non-whitespace characters
RECURSIVE str_split(_)
str_split(s) ==
    IF s = <<>> THEN <<>>
    ELSE IF IsSpaceChar(Head(s)) THEN str_split(Tail(s))
    ELSE LET stops == {i \in 1..Len(s) : IsSpaceChar(s[i])}
             n == IF stops = {} THEN Len(s) + 1
                  ELSE CHOOSE i \in stops : \A j \in stops : i <= j
         IN <<SubSeq(s, 1, n - 1)>> \o str_split(SubSeq(s, n, Len(s)))

\* sep.join(parts)
RECURSIVE str_join(_, _)
str_join(sep, parts) ==
    IF parts = <<>> THEN <<>>
    ELSE IF Len(parts) = 1 THEN parts[1]
    ELSE parts[1] \o sep \o str_join(sep, Tail(parts))

\* _normalize with the whitespace collapsed before the punctuation is removed
normalize_collapse_first(txt) ==
    IF ~Truthy(txt) THEN PyStr(<<>>)
    ELSE IF txt.t # "str" THEN Raise("AttributeError")
    ELSE PyStr(sub_punctuation(str_join(<<" ">>,
               str_split(sub_quotes(sub_hyphen_runs(str_lower(txt.v)))))))

_normalize(txt) ==
    IF ~Truthy(txt) THEN PyStr(<<>>)
    ELSE IF txt.t # "str" THEN Raise("AttributeError")
    ELSE PyStr(str_join(<<" ">>,
               str_split(sub_punctuation(sub_quotes(
                   sub_hyphen_runs(str_lower(txt.v)))))))

(***************************************************************************)
(* The dictionaries.  A dictionary is the sequence of its items in         *)
(* insertion order, which is the order a Python dict iterates in.  The     *)
(* model carries the entries of each taxonomy that the words of its texts  *)
(* can reach, in the order of the source, each with all its aliases.       *)
(***************************************************************************)
Entry(canonical, aliases) == [canonical |-> canonical, aliases |-> aliases]

AMacron == <<"U+0101">>

GEOGRAPHY_KEYWORDS ==
    << Entry("Auckland",
             << Chars("auckland"),
                Chars("t") \o AMacron \o Chars("maki makaurau"),
                Chars("tamaki makaurau"),
                Chars("waitemat") \o AMacron,
                Chars("waitemata") >>),
       Entry("Wellington",
             << Chars("wellington"), Chars("te whanganui-a-tara"),
                Chars("hutt valley"), Chars("lower hutt"),
                Chars("upper hutt"), Chars("porirua"), Chars("kapiti") >>),
       Entry("Rotorua", << Chars("rotorua"), Chars("te arawa") >>),
       Entry("Hawke's Bay",
             << Chars("hawkes bay"), Chars("hawke's bay"), Chars("napier"),
                Chars("hastings"),
                Chars("te matau-a-m") \o AMacron \o Chars("ui") >>),
       Entry("New Zealand",
             << Chars("new zealand"), Chars("aotearoa"), Chars("nz") >>) >>

METHOD_KEYWORDS ==
    << Entry("counter-mapping",
             << Chars("counter-mapping"), Chars("counter mapping"),
                Chars("deep mapping"), Chars("critical gis"),
                Chars("qualitative gis") >>),
       Entry("kaupapa-maori",
             << Chars("kaupapa maori"),
                Chars("kaupapa m") \o AMacron \o Chars("ori"),
                Chars("m") \o AMacron \o Chars("tauranga"),
                Chars("whakapapa"), Chars("mana whenua") >>),
       Entry("survey-data",
             << Chars("survey"), Chars("questionnaire"),
                Chars("cross-sectional"), Chars("household economic survey"),
                Chars("hes") >>),
       Entry("case-study",
             << Chars("case study"), Chars("case-study"),
                Chars("multiple case studies") >>) >>

STAKEHOLDER_KEYWORDS ==
    << Entry("renters",
             << Chars("tenant"), Chars("tenants"), Chars("renter"),
                Chars("renters"), Chars("rental") >>),
       Entry("landlords",
             << Chars("landlord"), Chars("landlords"),
                Chars("private landlord") >>),
       Entry("local-government",
             << Chars("council"), Chars("local authority"),
                Chars("municipality"), Chars("city council") >>) >>

Keys(d) == [i \in 1..Len(d) |-> d[i].canonical]

(***************************************************************************)
(* The dictionary matcher.                                                 *)
(***************************************************************************)
\* \b of re at the position between s[p] and s[p + 1]
WordBoundary(s, p) ==
    (p >= 1 /\ IsWordChar(s[p])) # (p < Len(s) /\ IsWordChar(s[p + 1]))

\* the alternatives of (?:s|es|ies)?
PluralSuffixes == {<<>>, Chars("s"), Chars("es"), Chars("ies")}

\* the pattern without its closing \b
alias_search_open_end(alias_norm, text_norm) ==
    \E p \in 0..Len(text_norm) :
        /\ WordBoundary(text_norm, p)
        /\ \E suffix \in PluralSuffixes :
              LET body == alias_norm \o suffix
                  q == p + Len(body)
              IN /\ q <= Len(text_norm)
                 /\ SubSeq(text_norm, p + 1, q) = body

\* re.search(r'\b' + re.escape(alias_norm) + r'(?:s|es|ies)?\b', text_norm)
alias_search(alias_norm, text_norm) ==
    \E p \in 0..Len(text_norm) :
        /\ WordBoundary(text_norm, p)
        /\ \E suffix \in PluralSuffixes :
              LET body == alias_norm \o suffix
                  q == p + Len(body)
              IN /\ q <= Len(text_norm)
                 /\ WordBoundary(text_norm, q)
                 /\ SubSeq(text_norm, p + 1, q) = body

\* alias_norm = _normalize(alias), kept in a table for the aliases of the
\* three dictionaries so that it is computed once for each of them
DictionaryAliases ==
    UNION {UNION {Range(d[k].aliases) : k \in 1..Len(d)} :
               d \in {GEOGRAPHY_KEYWORDS, METHOD_KEYWORDS, STAKEHOLDER_KEYWORDS}}

NormalizedAlias == [alias \in DictionaryAliases |-> _normalize(PyStr(alias)).v]

alias_norm(alias) ==
    IF alias \in DictionaryAliases THEN NormalizedAlias[alias]
    ELSE _normalize(PyStr(alias)).v

\* the aliases of one label that match, in order
matching_aliases(aliases, text_norm) ==
    SelectSeq(aliases, LAMBDA alias : alias_search(alias_norm(alias), text_norm))

\* the inner loop without its break: one append per matching alias
label_credit_per_alias(canonical, aliases, text_norm) ==
    [i \in 1..Len(matching_aliases(aliases, text_norm)) |-> canonical]

\* the inner loop: the label is appended at the first matching alias
label_credit(canonical, aliases, text_norm) ==
    IF matching_aliases(aliases, text_norm) # <<>> THEN <<canonical>> ELSE <<>>

RECURSIVE match_items(_, _)
match_items(items, text_norm) ==
    IF items = <<>> THEN <<>>
    ELSE label_credit(Head(items).canonical, Head(items).aliases, text_norm)
         \o match_items(Tail(items), text_norm)

_match_keywords(txt, dict) ==
    IF ~Truthy(txt) THEN PyList(<<>>)
    ELSE LET text_norm == _normalize(txt)
         IN IF text_norm.t = "raise" THEN text_norm
            ELSE PyList(match_items(dict, text_norm.v))

(***************************************************************************)
(* The metadata extractor.  An article is a record; a field the article    *)
(* does not have is a field the record does not have.                      *)
(***************************************************************************)
PyDict(d) == [t |-> "dict", v |-> d]

\* dict.get(key, default)
dict_get(d, key, default) == IF key \in DOMAIN d THEN d[key] ELSE default

\* x or y
py_or(x, y) == IF Truthy(x) THEN x ELSE y

\* ' '.join(keywords) for a list of strings
join_keywords(keywords) ==
    IF keywords.t = "list"
    THEN PyStr(str_join(<<" ">>, [i \in 1..Len(keywords.v) |-> keywords.v[i].v]))
    ELSE Raise("TypeError")

\* for f in found: if f not in acc: acc.append(f)
RECURSIVE append_new(_, _)
append_new(acc, found) ==
    IF found = <<>> THEN acc
    ELSE append_new(IF Head(found) \in Range(acc) THEN acc
                    ELSE Append(acc, Head(found)),
                    Tail(found))

\* the loop over the sources without its break
RECURSIVE extract_sources_no_break(_, _, _)
extract_sources_no_break(sources, dict, acc) ==
    IF sources = <<>> THEN PyList(acc)
    ELSE LET found == _match_keywords(Head(sources), dict)
         IN IF found.t = "raise" THEN found
            ELSE extract_sources_no_break(Tail(sources), dict,
                                          append_new(acc, found.v))

\* for source in (title, keywords, abstract): ... if acc: break
RECURSIVE extract_sources(_, _, _)
extract_sources(sources, dict, acc) ==
    IF sources = <<>> THEN PyList(acc)
    ELSE LET found == _match_keywords(Head(sources), dict)
         IN IF found.t = "raise" THEN found
            ELSE LET acc2 == append_new(acc, found.v)
                 IN IF acc2 # <<>> THEN PyList(acc2)
                    ELSE extract_sources(Tail(sources), dict, acc2)

\* the sources without the `or []` and `or ''` defaults
article_sources_no_default(a) ==
    LET title == dict_get(a, "title", PyStr(<<>>))
        keywords == join_keywords(dict_get(a, "keywords", PyList(<<>>)))
        abstract == dict_get(a, "abstract", PyStr(<<>>))
    IN <<title, keywords, abstract>>

\* the three sources of an article, in priority order
article_sources(a) ==
    LET title == dict_get(a, "title", PyStr(<<>>))
        keywords == join_keywords(py_or(dict_get(a, "keywords", PyList(<<>>)),
                                        PyList(<<>>)))
        abstract == py_or(dict_get(a, "abstract", PyStr(<<>>)), PyStr(<<>>))
    IN <<title, keywords, abstract>>

extract_with(a, dict) ==
    LET sources == article_sources(a)
    IN IF sources[2].t = "raise" THEN sources[2]
       ELSE extract_sources(sources, dict, <<>>)

extract_geography(a) == extract_with(a, GEOGRAPHY_KEYWORDS)

extract_methods(a) == extract_with(a, METHOD_KEYWORDS)

extract_stakeholders(a) == extract_with(a, STAKEHOLDER_KEYWORDS)

\* extract_all reading all three taxonomies from the first source in which
\* any of them matches
extract_all_shared_source(a) ==
    LET sources == article_sources(a)
        found(i, dict) == _match_keywords(sources[i], dict)
        hits == {i \in 1..3 :
                    \E dict \in {GEOGRAPHY_KEYWORDS, METHOD_KEYWORDS,
                                  STAKEHOLDER_KEYWORDS} :
                        found(i, dict).t = "list" /\ found(i, dict).v # <<>>}
        first == IF hits = {} THEN 1 ELSE CHOOSE i \in hits : \A j \in hits : i <= j
        g == found(first, GEOGRAPHY_KEYWORDS)
        m == found(first, METHOD_KEYWORDS)
        s == found(first, STAKEHOLDER_KEYWORDS)
    IN IF sources[2].t = "raise" THEN sources[2]
       ELSE IF g.t = "raise" THEN g
       ELSE IF m.t = "raise" THEN m
       ELSE IF s.t = "raise" THEN s
       ELSE PyDict([geography |-> g.v, methods |-> m.v, stakeholders |-> s.v])

extract_all(a) ==
    LET g == extract_geography(a)
        m == extract_methods(a)
        s == extract_stakeholders(a)
    IN IF g.t = "raise" THEN g
       ELSE IF m.t = "raise" THEN m
       ELSE IF s.t = "raise" THEN s
       ELSE PyDict([geography |-> g.v, methods |-> m.v, stakeholders |-> s.v])

(***************************************************************************)
(* The article ranker.  A boost configuration is a Python dict from phrase *)
(* to weight: the sequence of its items in insertion order, no phrase      *)
(* twice.                                                                  *)
(***************************************************************************)
Item(phrase, weight) == [phrase |-> phrase, weight |-> weight]

\* d[k] = v on a dict: an existing key keeps its place and takes the value
dict_set(d, k, v) ==
    IF \E i \in 1..Len(d) : d[i].phrase = k
    THEN [i \in 1..Len(d) |-> IF d[i].phrase = k THEN Item(k, v) ELSE d[i]]
    ELSE Append(d, Item(k, v))

\* {k.lower(): v for k, v in boost_keywords.items()}
RECURSIVE lower_keys(_, _)
lower_keys(items, acc) ==
    IF items = <<>> THEN acc
    ELSE lower_keys(Tail(items),
                    dict_set(acc, str_lower(Head(items).phrase), Head(items).weight))

\* needle in haystack
\* the needle found only between word boundaries
is_whole_word(needle, haystack) ==
    \E p \in 0..(Len(haystack) - Len(needle)) :
        /\ SubSeq(haystack, p + 1, p + Len(needle)) = needle
        /\ p = 0 \/ ~IsWordChar(haystack[p])
        /\ p + Len(needle) = Len(haystack)
              \/ ~IsWordChar(haystack[p + Len(needle) + 1])

IsSubstring(needle, haystack) ==
    \E p \in 0..(Len(haystack) - Len(needle)) :
        SubSeq(haystack, p + 1, p + Len(needle)) = needle

\* the search text of an article, or the exception building it raises
search_text(a) ==
    LET title == dict_get(a, "title", PyStr(<<>>))
        keywords == dict_get(a, "keywords", PyList(<<>>))
        abstract == py_or(dict_get(a, "abstract", PyStr(<<>>)), PyStr(<<>>))
        keywords_text == IF Truthy(keywords)
                         THEN str_lower(join_keywords(keywords).v)
                         ELSE <<>>
    IN IF title.t # "str" THEN Raise("AttributeError")
       ELSE PyStr(str_replace(str_lower(title.v) \o <<" ">> \o keywords_text
                                  \o <<" ">> \o str_lower(abstract.v),
                              "-", " "))

\* the loop over the boost keywords with every field searched on its own
RECURSIVE add_weights_per_field(_, _, _)
add_weights_per_field(items, a, score) ==
    IF items = <<>> THEN score
    ELSE LET normalized_keyword == str_replace(Head(items).phrase, "-", " ")
             fields == {x \in {"title", "abstract"} :
                            /\ x \in DOMAIN a
                            /\ a[x].t = "str"
                            /\ IsSubstring(normalized_keyword,
                                   str_replace(str_lower(a[x].v), "-", " "))}
                       \cup {x \in {"keywords"} :
                               /\ x \in DOMAIN a
                               /\ Truthy(a[x])
                               /\ IsSubstring(normalized_keyword,
                                      str_replace(str_lower(join_keywords(a[x]).v),
                                                  "-", " "))}
         IN add_weights_per_field(Tail(items), a,
                                  score + Cardinality(fields) * Head(items).weight)

\* for boost_keyword, weight in self.boost_keywords_lower.items(): ...
RECURSIVE add_weights(_, _, _)
add_weights(items, searched, score) ==
    IF items = <<>> THEN score
    ELSE LET normalized_keyword == str_replace(Head(items).phrase, "-", " ")
         IN add_weights(Tail(items), searched,
                        IF IsSubstring(normalized_keyword, searched)
                        THEN score + Head(items).weight
                        ELSE score)

\* the score with a phrase counted once for every field it occurs in
calculate_score_per_field(lower, a) ==
    LET searched == search_text(a)
    IN IF searched.t = "raise" THEN searched
       ELSE PyInt(add_weights_per_field(lower, a, 0))

_calculate_score(lower, a) ==
    LET searched == search_text(a)
    IN IF searched.t = "raise" THEN searched
       ELSE PyInt(add_weights(lower, searched.v, 0))

\* {**article, 'score': score}
with_score(a, score) ==
    [f \in DOMAIN a \cup {"score"} |-> IF f = "score" THEN score ELSE a[f]]

\* the scores of the articles in order, up to the first that raises
RECURSIVE score_all(_, _, _)
score_all(lower, as, scored_articles) ==
    IF as = <<>> THEN PyList(scored_articles)
    ELSE LET score == _calculate_score(lower, Head(as))
         IN IF score.t = "raise" THEN score
            ELSE score_all(lower, Tail(as),
                           Append(scored_articles, with_score(Head(as), score)))

\* the place a stable descending sort gives x among the sorted xs that stood
\* before it: behind every element whose score is at least its own
insert_descending(xs, x) ==
    LET k == Cardinality({i \in 1..Len(xs) : xs[i].score.v >= x.score.v})
    IN SubSeq(xs, 1, k) \o <<x>> \o SubSeq(xs, k + 1, Len(xs))

insert_ascending(xs, x) ==
    LET k == Cardinality({i \in 1..Len(xs) : xs[i].score.v <= x.score.v})
    IN SubSeq(xs, 1, k) \o <<x>> \o SubSeq(xs, k + 1, Len(xs))

RECURSIVE sorted_ascending_from(_, _)
sorted_ascending_from(done, rest) ==
    IF rest = <<>> THEN done
    ELSE sorted_ascending_from(insert_ascending(done, Head(rest)), Tail(rest))

\* sorted(xs, key=score) without reverse=True
sorted_ascending(xs) == sorted_ascending_from(<<>>, xs)

\* sorted(xs, key=score)[::-1]
sorted_then_reversed(xs) ==
    LET up == sorted_ascending(xs)
    IN [i \in 1..Len(up) |-> up[Len(up) + 1 - i]]

RECURSIVE sorted_descending_from(_, _)
sorted_descending_from(done, rest) ==
    IF rest = <<>> THEN done
    ELSE sorted_descending_from(insert_descending(done, Head(rest)), Tail(rest))

\* sorted(xs, key=lambda x: x['score'], reverse=True): stable
sorted_by_score(xs) == sorted_descending_from(<<>>, xs)

rank_articles(lower, as) ==
    LET scored_articles == score_all(lower, as, <<>>)
    IN IF scored_articles.t = "raise" THEN scored_articles
       ELSE PyList(sorted_by_score(scored_articles.v))

\* xs[:n + 1]
slice_through(xs, n) ==
    IF n + 1 >= 0 THEN SubSeq(xs, 1, IF n + 1 < Len(xs) THEN n + 1 ELSE Len(xs))
    ELSE SubSeq(xs, 1, IF Len(xs) + n + 1 > 0 THEN Len(xs) + n + 1 ELSE 0)

\* xs[:n], a negative n counting from the end
slice_to(xs, n) ==
    IF n >= 0 THEN SubSeq(xs, 1, IF n < Len(xs) THEN n ELSE Len(xs))
    ELSE SubSeq(xs, 1, IF Len(xs) + n > 0 THEN Len(xs) + n ELSE 0)

\* the default of the parameter n of get_top_articles
DefaultTop == 15

get_top_articles(lower, as, n) ==
    LET ranked_ == rank_articles(lower, as)
    IN IF ranked_.t = "raise" THEN ranked_
       ELSE PyList(slice_to(ranked_.v, IF n = Unset THEN DefaultTop ELSE n.v))

\* sorted(scores) for integers
RECURSIVE sorted_ints_from(_, _)
sorted_ints_from(done, rest) ==
    IF rest = <<>> THEN done
    ELSE LET k == Cardinality({i \in 1..Len(done) : done[i] <= Head(rest)})
         IN sorted_ints_from(SubSeq(done, 1, k) \o <<Head(rest)>>
                                 \o SubSeq(done, k + 1, Len(done)),
                             Tail(rest))

sorted_ints(xs) == sorted_ints_from(<<>>, xs)

RECURSIVE sum(_)
sum(xs) == IF xs = <<>> THEN 0 ELSE Head(xs) + sum(Tail(xs))

\* the quotient num / den of Python's true division, kept exact
Quotient(num, den) == [num |-> num, den |-> den]

\* [a.get('score', 1) for a in articles]
scores_default_one(as) ==
    [i \in 1..Len(as) |-> dict_get(as[i], "score", PyInt(1)).v]

\* [a.get('score', 0) for a in articles]
scores_of(as) == [i \in 1..Len(as) |-> dict_get(as[i], "score", PyInt(0)).v]

\* the index (len - 1) // 2
median_index_lower(n) == (n - 1) \div 2

\* the index len(scores) // 2, counted from 0
median_index(n) == n \div 2

\* get_statistics without the early return: scores_sorted[0] of an empty
\* list raises
get_statistics_unguarded(as) ==
    IF as = <<>> THEN Raise("IndexError")
    ELSE LET scores == scores_of(as)
             scores_sorted == sorted_ints(scores)
         IN [min |-> scores_sorted[1],
             max |-> scores_sorted[Len(scores_sorted)],
             mean |-> Quotient(sum(scores), Len(scores)),
             median |-> scores_sorted[median_index(Len(scores)) + 1],
             total_articles |-> Len(as),
             zero_score |-> Len(SelectSeq(scores, LAMBDA x : x = 0))]

get_statistics(as) ==
    IF as = <<>>
    THEN [min |-> 0, max |-> 0, mean |-> Quotient(0, 1), median |-> 0]
    ELSE LET scores == scores_of(as)
             scores_sorted == sorted_ints(scores)
         IN [min |-> scores_sorted[1],
             max |-> scores_sorted[Len(scores_sorted)],
             mean |-> Quotient(sum(scores), Len(scores)),
             median |-> scores_sorted[median_index(Len(scores)) + 1],
             total_articles |-> Len(as),
             zero_score |-> Len(SelectSeq(scores, LAMBDA x : x = 0))]

(***************************************************************************)
(* The normalizer on its own: every text of at most MaxTextLen characters  *)
(* over NormChars, the empty text and None.                                *)
(***************************************************************************)
NormChars ==
    {"A", "a", "s", "1", "-", "_", " ", "\t", ".", "'", "U+2019", "U+0100",
     "U+0101"}

RECURSIVE TextsUpTo(_, _)
TextsUpTo(alphabet, n) ==
    IF n = 0 THEN {<<>>}
    ELSE LET shorter == TextsUpTo(alphabet, n - 1)
         IN shorter \cup {Append(s, c) : s \in shorter, c \in alphabet}

MatchIdle == dictionary = <<>> /\ matches = Unset
BacklogIdle == backlog = <<>> /\ backlog_file = Unset /\ called = Unset
FetchIdle ==
    /\ cache = <<>>
    /\ cache_file = Unset
    /\ now = 0
    /\ queried = <<>>
    /\ fetched = Unset
DedupIdle ==
    /\ seen = <<>>
    /\ seen_file = Unset
    /\ new_articles = Unset
    /\ marked = {}
    /\ last_call = "none"
ExtractIdle == article = Unset /\ tags = Unset /\ extracted = Unset
RankIdle ==
    /\ boost_keywords = <<>>
    /\ boost_keywords_lower = Unset
    /\ articles = <<>>
    /\ ranked = Unset
    /\ stats = Unset
    /\ top_n = Unset
    /\ top = Unset

InitNorm ==
    /\ DedupIdle
    /\ BacklogIdle
    /\ FetchIdle
    /\ text \in {PyNone} \cup {PyStr(s) : s \in TextsUpTo(NormChars, MaxTextLen)}
    /\ normalized = Unset
    /\ renormalized = Unset
    /\ MatchIdle
    /\ ExtractIdle
    /\ RankIdle

Normalize ==
    /\ normalized = Unset
    /\ normalized' = _normalize(text)
    /\ UNCHANGED <<backlogVars, fetchVars,
                   dedupVars, text, renormalized, matchVars, extractVars, rankVars>>

Renormalize ==
    /\ normalized # Unset
    /\ renormalized = Unset
    /\ renormalized' = _normalize(normalized)
    /\ UNCHANGED <<backlogVars, fetchVars,
                   dedupVars, text, normalized, matchVars, extractVars, rankVars>>

NextNorm == Normalize \/ Renormalize

SpecNorm == InitNorm /\ [][NextNorm]_vars

\* C7: normalizing an already normalized text changes nothing, and None
\* and the empty text both normalize to the empty string.
NormalizeIdempotent ==
    /\ renormalized # Unset => renormalized = normalized
    /\ (normalized # Unset /\ ~Truthy(text)) => normalized = PyStr(<<>>)

\* A text that normalization changes has been normalized twice.
NormalizeIdempotentWitness ==
    /\ text = PyStr(<<"A", "-", "U+2019">>)
    /\ normalized = PyStr(<<"a">>)
    /\ renormalized = PyStr(<<"a">>)

(***************************************************************************)
(* The matcher and the extractor.  A behaviour either hands a text and a   *)
(* dictionary to _match_keywords, or an article to the extract functions.  *)
(* A text is a run of at most MaxFragments fragments written one directly  *)
(* after the other, so that a word can be followed and preceded by         *)
(* letters, suffixes, spaces and punctuation.                              *)
(***************************************************************************)
Fragments ==
    { Chars("survey"), Chars("Auckland"), Chars("tenant"), Chars("hawke's"),
      Chars(" bay"), Chars("s"), Chars("es"), Chars("ies"), Chars("ing"),
      Chars(" "), Chars("-"), Chars("x") }

RECURSIVE FragmentTexts(_)
FragmentTexts(n) ==
    IF n = 0 THEN {<<>>}
    ELSE LET shorter == FragmentTexts(n - 1)
         IN shorter \cup {s \o f : s \in shorter, f \in Fragments}

Dictionaries == {GEOGRAPHY_KEYWORDS, METHOD_KEYWORDS, STAKEHOLDER_KEYWORDS}

SourceTexts ==
    { <<>>,
      Chars("Housing in Auckland"),
      Chars("Surveys of tenants in Rotorua"),
      Chars("Surveying landlords, Auckland and Rotorua") }

KeywordPool == { Chars("surveys"), Chars("Auckland"), Chars("counter-mapping") }

RECURSIVE KeywordLists(_)
KeywordLists(n) ==
    IF n = 0 THEN {<<>>}
    ELSE LET shorter == KeywordLists(n - 1)
         IN shorter \cup {Append(l, PyStr(k)) : l \in shorter, k \in KeywordPool}

\* a record with the field only when a value is given for it
WithField(name, values) == {<<>>} \cup {name :> v : v \in values}

ExtractArticles ==
    { t @@ k @@ a :
        t \in WithField("title", {PyNone} \cup {PyStr(x) : x \in SourceTexts}),
        k \in WithField("keywords",
                        {PyNone} \cup {PyList(l) : l \in KeywordLists(MaxKeywords)}),
        a \in WithField("abstract", {PyNone} \cup {PyStr(x) : x \in SourceTexts}) }

NoTags == [geography |-> Unset, methods |-> Unset, stakeholders |-> Unset]

NormIdle == normalized = Unset /\ renormalized = Unset

InitMatch ==
    /\ DedupIdle
    /\ BacklogIdle
    /\ FetchIdle
    /\ text \in {PyNone} \cup {PyStr(s) : s \in FragmentTexts(MaxFragments)}
    /\ dictionary \in Dictionaries
    /\ matches = Unset
    /\ NormIdle
    /\ ExtractIdle
    /\ RankIdle

InitExtractArticle ==
    /\ DedupIdle
    /\ BacklogIdle
    /\ FetchIdle
    /\ article \in ExtractArticles
    /\ tags = NoTags
    /\ extracted = Unset
    /\ text = Unset
    /\ NormIdle
    /\ MatchIdle
    /\ RankIdle

InitExtract == InitMatch \/ InitExtractArticle

MatchKeywords ==
    /\ dictionary # <<>>
    /\ matches = Unset
    /\ matches' = _match_keywords(text, dictionary)
    /\ UNCHANGED <<backlogVars, fetchVars,
                   dedupVars, normVars, dictionary, extractVars, rankVars>>

ExtractReady == article # Unset /\ tags = NoTags /\ extracted = Unset

ExtractGeography ==
    /\ ExtractReady
    /\ tags' = [tags EXCEPT !.geography = extract_geography(article)]
    /\ UNCHANGED <<backlogVars, fetchVars,
                   dedupVars, normVars, matchVars, article, extracted, rankVars>>

ExtractMethods ==
    /\ ExtractReady
    /\ tags' = [tags EXCEPT !.methods = extract_methods(article)]
    /\ UNCHANGED <<backlogVars, fetchVars,
                   dedupVars, normVars, matchVars, article, extracted, rankVars>>

ExtractStakeholders ==
    /\ ExtractReady
    /\ tags' = [tags EXCEPT !.stakeholders = extract_stakeholders(article)]
    /\ UNCHANGED <<backlogVars, fetchVars,
                   dedupVars, normVars, matchVars, article, extracted, rankVars>>

ExtractAll ==
    /\ ExtractReady
    /\ extracted' = extract_all(article)
    /\ UNCHANGED <<backlogVars, fetchVars,
                   dedupVars, normVars, matchVars, article, tags, rankVars>>

NextExtract ==
    \/ MatchKeywords
    \/ ExtractGeography
    \/ ExtractMethods
    \/ ExtractStakeholders
    \/ ExtractAll

SpecExtract == InitExtract /\ [][NextExtract]_vars

(***************************************************************************)
(* Properties of the matcher and the extractor.                            *)
(***************************************************************************)
Taxonomies == {"geography", "methods", "stakeholders"}

TaxonomyDictionary(taxonomy) ==
    CASE taxonomy = "geography" -> GEOGRAPHY_KEYWORDS
      [] taxonomy = "methods" -> METHOD_KEYWORDS
      [] taxonomy = "stakeholders" -> STAKEHOLDER_KEYWORDS

KeyIndex(label, dict) == CHOOSE k \in 1..Len(dict) : dict[k].canonical = label

NoDuplicates(labels) ==
    \A i, j \in 1..Len(labels) : labels[i] = labels[j] => i = j

OnlyKeysOf(labels, dict) == Range(labels) \subseteq Range(Keys(dict))

InKeyOrder(labels, dict) ==
    \A i, j \in 1..Len(labels) :
        i < j => KeyIndex(labels[i], dict) < KeyIndex(labels[j], dict)

\* the matcher results of the three sources of the article, in priority order
SourceMatches(a, dict) ==
    [i \in 1..3 |-> _match_keywords(article_sources(a)[i], dict).v]

FirstNonEmpty(results) ==
    LET hits == {i \in 1..Len(results) : results[i] # <<>>}
    IN IF hits = {} THEN <<>>
       ELSE results[CHOOSE i \in hits : \A j \in hits : i <= j]

\* C1: the tags of a taxonomy are the matcher's result on the first of
\* title, space-joined keywords and abstract that matches anything, and the
\* empty list when none does; a title matching Auckland with an abstract
\* matching only Rotorua gives exactly [Auckland].
FirstMatchingSourceWins ==
    article # Unset =>
        /\ \A x \in Taxonomies :
              tags[x] # Unset =>
                  tags[x] = PyList(FirstNonEmpty(
                                SourceMatches(article, TaxonomyDictionary(x))))
        /\ extracted # Unset =>
              \A x \in Taxonomies :
                  extracted.v[x] =
                      FirstNonEmpty(SourceMatches(article, TaxonomyDictionary(x)))
        /\ ( /\ tags.geography # Unset
             /\ dict_get(article, "title", PyNone) = PyStr(Chars("Housing in Auckland"))
             /\ dict_get(article, "abstract", PyNone)
                    = PyStr(Chars("Surveys of tenants in Rotorua")) )
           => tags.geography = PyList(<<"Auckland">>)

\* The title decides the geography although keywords and abstract match
\* another label.
FirstMatchingSourceWinsWitness ==
    /\ article = [title |-> PyStr(Chars("Housing in Auckland")),
                  keywords |-> PyList(<<PyStr(Chars("surveys"))>>),
                  abstract |-> PyStr(Chars("Surveys of tenants in Rotorua"))]
    /\ tags.geography = PyList(<<"Auckland">>)

\* C5: the matcher returns keys of the dictionary, each at most once, in
\* the order of the dictionary, and nothing for empty or null text; every
\* tag list of the extractor has no duplicate and only labels of its own
\* taxonomy.
MatcherReturnsKeysOnce ==
    /\ matches # Unset =>
          /\ matches.t = "list"
          /\ OnlyKeysOf(matches.v, dictionary)
          /\ NoDuplicates(matches.v)
          /\ InKeyOrder(matches.v, dictionary)
          /\ ~Truthy(text) => matches.v = <<>>
    /\ article # Unset =>
          /\ \A x \in Taxonomies :
                tags[x] # Unset =>
                    /\ OnlyKeysOf(tags[x].v, TaxonomyDictionary(x))
                    /\ NoDuplicates(tags[x].v)
          /\ extracted # Unset =>
                \A x \in Taxonomies :
                    /\ OnlyKeysOf(extracted.v[x], TaxonomyDictionary(x))
                    /\ NoDuplicates(extracted.v[x])

\* A text that two aliases of the same label match credits the label once.
MatcherReturnsKeysOnceWitness ==
    /\ text = PyStr(Chars("tenants"))
    /\ dictionary = STAKEHOLDER_KEYWORDS
    /\ matches = PyList(<<"renters">>)

\* the words of a text after normalization
Words(txt) == str_split(_normalize(txt).v)

\* the words of the alias stand in the text as consecutive whole words, the
\* last of them possibly carrying a plural ending
WholePhraseOccurs(alias, txt) ==
    LET aw == Words(PyStr(alias))
        w == Words(txt)
        n == Len(aw)
    IN \E i \in 1..Len(w) :
          /\ i + n - 1 <= Len(w)
          /\ \A j \in 1..(n - 1) : w[i + j - 1] = aw[j]
          /\ \E suffix \in PluralSuffixes : w[i + n - 1] = aw[n] \o suffix

Credited(label) == matches # Unset /\ label \in Range(matches.v)

\* C6: a label is credited exactly when one of its aliases stands in the
\* normalized text as a whole word or phrase, optionally followed directly
\* by s, es or ies: surveys and Aucklands match, surveying does not, and
\* neither does Auckland inside a longer word.
AliasMatchesWholeWordsOnly ==
    /\ (matches # Unset /\ Truthy(text)) =>
          \A k \in 1..Len(dictionary) :
              Credited(dictionary[k].canonical)
                  <=> \E a \in Range(dictionary[k].aliases) :
                          WholePhraseOccurs(a, text)
    /\ (matches # Unset /\ dictionary = METHOD_KEYWORDS) =>
          /\ text = PyStr(Chars("surveys")) => Credited("survey-data")
          /\ text = PyStr(Chars("surveying")) => ~Credited("survey-data")
    /\ (matches # Unset /\ dictionary = GEOGRAPHY_KEYWORDS) =>
          /\ text = PyStr(Chars("Aucklands")) => Credited("Auckland")
          /\ text \in {PyStr(Chars("Aucklanding")), PyStr(Chars("xAuckland")),
                       PyStr(Chars("tenantAuckland"))} => ~Credited("Auckland")

\* The plural of an alias has been matched.
AliasMatchesWholeWordsOnlyWitness ==
    /\ text = PyStr(Chars("surveys"))
    /\ dictionary = METHOD_KEYWORDS
    /\ matches = PyList(<<"survey-data">>)

(***************************************************************************)
(* The ranker: a boost configuration of at most MaxBoost items and a list  *)
(* of at most MaxArticles articles, each with a url of its own.            *)
(***************************************************************************)
BoostItems ==
    { Item(Chars("housing-policy"), 40),
      Item(Chars("Housing-Policy"), 25),
      Item(Chars("housing policy"), 15),
      Item(Chars("affordability"), 30),
      Item(Chars("afford"), -10) }

RECURSIVE BoostConfigs(_)
BoostConfigs(n) ==
    IF n = 0 THEN {<<>>}
    ELSE LET shorter == BoostConfigs(n - 1)
         IN shorter \cup
            UNION {{Append(d, it) :
                       it \in {x \in BoostItems :
                                 \A i \in 1..Len(d) : d[i].phrase # x.phrase}} :
                   d \in shorter}

RankPool ==
    { [title |-> PyStr(Chars("Housing policy and housing affordability"))],
      [title |-> PyStr(Chars("Housing-Policy")),
       keywords |-> PyList(<<PyStr(Chars("housing-policy")),
                             PyStr(Chars("Affordability"))>>),
       abstract |-> PyStr(Chars("Housing policy"))],
      [title |-> PyStr(Chars("Climate")), keywords |-> PyNone,
       abstract |-> PyNone, score |-> PyInt(99)],
      [title |-> PyStr(Chars("Unaffordable housing")),
       keywords |-> PyList(<<PyStr(Chars("policy"))>>),
       abstract |-> PyStr(<<>>)] }

Urls == <<Chars("u1"), Chars("u2"), Chars("u3"), Chars("u4")>>

with_url(a, i) ==
    [f \in DOMAIN a \cup {"url"} |-> IF f = "url" THEN PyStr(Urls[i]) ELSE a[f]]

RECURSIVE ArticleLists(_)
ArticleLists(n) ==
    IF n = 0 THEN {<<>>}
    ELSE LET shorter == ArticleLists(n - 1)
         IN shorter \cup
            {Append(l, with_url(a, Len(l) + 1)) : l \in shorter, a \in RankPool}

InitRank ==
    /\ DedupIdle
    /\ BacklogIdle
    /\ FetchIdle
    /\ boost_keywords \in BoostConfigs(MaxBoost)
    /\ boost_keywords_lower = Unset
    /\ articles \in ArticleLists(MaxArticles)
    /\ ranked = Unset
    /\ stats = Unset
    /\ top_n = Unset
    /\ top = Unset
    /\ text = Unset
    /\ NormIdle
    /\ MatchIdle
    /\ ExtractIdle

\* ArticleRanker.__init__
Construct ==
    /\ boost_keywords_lower = Unset
    /\ boost_keywords_lower' = PyDict(lower_keys(boost_keywords, <<>>))
    /\ UNCHANGED <<backlogVars, fetchVars,
                   dedupVars, normVars, matchVars, extractVars, boost_keywords, articles,
                   ranked, stats, top_n, top>>

\* rank_articles writing the scores into the input records and sorting the
\* input list in place
RankArticlesInPlace ==
    /\ boost_keywords_lower # Unset
    /\ ranked = Unset
    /\ ranked' = rank_articles(boost_keywords_lower.v, articles)
    /\ articles' = IF ranked'.t = "list" THEN ranked'.v ELSE articles
    /\ UNCHANGED <<backlogVars, fetchVars,
                   dedupVars, normVars, matchVars, extractVars, boost_keywords,
                   boost_keywords_lower, stats, top_n, top>>

RankArticles ==
    /\ boost_keywords_lower # Unset
    /\ ranked = Unset
    /\ ranked' = rank_articles(boost_keywords_lower.v, articles)
    /\ UNCHANGED <<backlogVars, fetchVars,
                   dedupVars, normVars, matchVars, extractVars, boost_keywords,
                   boost_keywords_lower, articles, stats, top_n, top>>

NextRank == Construct \/ RankArticles

SpecRank == InitRank /\ [][NextRank]_vars

(***************************************************************************)
(* The statistics: a list of at most MaxScored records, each with a score  *)
(* out of ScoreValues or with none.                                        *)
(***************************************************************************)
ScoreValues == {-1, 0, 1, 2}

ScoredRecords ==
    {[title |-> PyStr(Chars("t"))]}
        \cup {[title |-> PyStr(Chars("t")), score |-> PyInt(x)] : x \in ScoreValues}

RECURSIVE ScoredLists(_)
ScoredLists(n) ==
    IF n = 0 THEN {<<>>}
    ELSE LET shorter == ScoredLists(n - 1)
         IN shorter \cup {Append(l, a) : l \in shorter, a \in ScoredRecords}

InitStats ==
    /\ DedupIdle
    /\ BacklogIdle
    /\ FetchIdle
    /\ articles \in ScoredLists(MaxScored)
    /\ stats = Unset
    /\ top_n = Unset
    /\ top = Unset
    /\ boost_keywords = <<>>
    /\ boost_keywords_lower = Unset
    /\ ranked = Unset
    /\ text = Unset
    /\ NormIdle
    /\ MatchIdle
    /\ ExtractIdle

GetStatistics ==
    /\ stats = Unset
    /\ stats' = PyDict(get_statistics(articles))
    /\ UNCHANGED <<backlogVars, fetchVars,
                   dedupVars, normVars, matchVars, extractVars, boost_keywords,
                   boost_keywords_lower, articles, ranked, top_n, top>>

NextStats == GetStatistics

SpecStats == InitStats /\ [][NextStats]_vars

(***************************************************************************)
(* Properties of the ranker.                                               *)
(***************************************************************************)
HousingPolicyTitle == PyStr(Chars("Housing policy and housing affordability"))

\* the text of a field, empty when the field is absent or None
FieldText(a, f) ==
    IF f \in DOMAIN a /\ a[f].t = "str" THEN a[f].v ELSE <<>>

KeywordsText(a) ==
    IF "keywords" \in DOMAIN a /\ a.keywords.t = "list"
    THEN str_join(<<" ">>, [i \in 1..Len(a.keywords.v) |-> a.keywords.v[i].v])
    ELSE <<>>

HyphensToSpaces(s) == [i \in 1..Len(s) |-> IF s[i] = "-" THEN " " ELSE s[i]]

CombinedSearchString(a) ==
    HyphensToSpaces(str_lower(FieldText(a, "title")) \o <<" ">>
                        \o str_lower(KeywordsText(a)) \o <<" ">>
                        \o str_lower(FieldText(a, "abstract")))

LowercaseDistinct(config) ==
    \A i, j \in 1..Len(config) :
        str_lower(config[i].phrase) = str_lower(config[j].phrase) => i = j

\* the items of the configuration whose phrase occurs in the article
OccurringItems(config, a) ==
    {i \in 1..Len(config) :
        IsSubstring(HyphensToSpaces(str_lower(config[i].phrase)),
                    CombinedSearchString(a))}

RECURSIVE SumOfWeights(_, _)
SumOfWeights(config, items) ==
    IF items = {} THEN 0
    ELSE LET i == CHOOSE x \in items : TRUE
         IN config[i].weight + SumOfWeights(config, items \ {i})

Ranked == ranked # Unset /\ ranked.t = "list"

\* C2: with phrases that stay distinct when lowercased, the score is the sum
\* of the weights of the phrases occurring in the combined search string,
\* each once; "Housing policy and housing affordability" scores 70 under
\* {"housing-policy": 40, "affordability": 30}.
ScoreIsSumOfOccurringWeights ==
    (Ranked /\ LowercaseDistinct(boost_keywords)) =>
        /\ \A j \in 1..Len(ranked.v) :
              ranked.v[j].score =
                  PyInt(SumOfWeights(boost_keywords,
                                     OccurringItems(boost_keywords, ranked.v[j])))
        /\ boost_keywords = <<Item(Chars("housing-policy"), 40),
                              Item(Chars("affordability"), 30)>>
              => \A j \in 1..Len(ranked.v) :
                    ranked.v[j].title = HousingPolicyTitle
                        => ranked.v[j].score = PyInt(70)

\* A phrase found in the title, the keywords and the abstract has counted once.
ScoreIsSumOfOccurringWeightsWitness ==
    /\ Ranked
    /\ boost_keywords = <<Item(Chars("housing-policy"), 40),
                          Item(Chars("affordability"), 30)>>
    /\ Len(ranked.v) = 2
    /\ ranked.v[1].title = HousingPolicyTitle
    /\ ranked.v[2].title = PyStr(Chars("Housing-Policy"))
    /\ ranked.v[1].score = PyInt(70)
    /\ ranked.v[2].score = PyInt(70)

\* C3: rank_articles returns every input record once, with its computed
\* score in the score field and nothing else changed, scores non-increasing.
RankedIsInputWithScoresDescending ==
    Ranked =>
        /\ Len(ranked.v) = Len(articles)
        /\ \A i \in 1..Len(articles) :
              Cardinality({j \in 1..Len(ranked.v) :
                  ranked.v[j] =
                      with_score(articles[i],
                                 _calculate_score(boost_keywords_lower.v,
                                                  articles[i]))}) = 1
        /\ \A j \in 1..(Len(ranked.v) - 1) :
              ranked.v[j].score.v >= ranked.v[j + 1].score.v

\* The second article has moved in front of the first, whose stale score
\* has been replaced.
RankedIsInputWithScoresDescendingWitness ==
    /\ Ranked
    /\ Len(articles) = 2
    /\ articles[1].title = PyStr(Chars("Climate"))
    /\ articles[1].score = PyInt(99)
    /\ ranked.v[1].url = articles[2].url
    /\ ranked.v[1].score.v > 0
    /\ ranked.v[2].url = articles[1].url
    /\ ranked.v[2].score = PyInt(0)

InputIndex(r) == CHOOSE i \in 1..Len(articles) : articles[i].url = r.url

\* C4: articles of equal score keep their input order, and with an empty
\* boost configuration all score 0 and the output order is the input order.
RankingIsStable ==
    Ranked =>
        /\ \A j, k \in 1..Len(ranked.v) :
              (j < k /\ ranked.v[j].score = ranked.v[k].score)
                  => InputIndex(ranked.v[j]) < InputIndex(ranked.v[k])
        /\ boost_keywords = <<>> =>
              /\ \A j \in 1..Len(ranked.v) : ranked.v[j].score = PyInt(0)
              /\ [j \in 1..Len(ranked.v) |-> ranked.v[j].url]
                     = [i \in 1..Len(articles) |-> articles[i].url]

\* Two articles tie behind a third and stand in their input order.
RankingIsStableWitness ==
    /\ Ranked
    /\ Len(ranked.v) = 3
    /\ ranked.v[1].score = PyInt(0)
    /\ ranked.v[2].score = PyInt(-10)
    /\ ranked.v[3].score = PyInt(-10)
    /\ ranked.v[2].title # ranked.v[3].title
    /\ InputIndex(ranked.v[1]) = 3
    /\ InputIndex(ranked.v[2]) = 1
    /\ InputIndex(ranked.v[3]) = 2

(***************************************************************************)
(* Properties of the statistics.                                           *)
(***************************************************************************)
ScoreOf(a) == IF "score" \in DOMAIN a THEN a.score.v ELSE 0

ScoreAt == [i \in 1..Len(articles) |-> ScoreOf(articles[i])]

\* the k-th smallest score, counted from 1
KthSmallest(k) ==
    CHOOSE m \in Range(ScoreAt) :
        /\ Cardinality({i \in 1..Len(articles) : ScoreAt[i] < m}) < k
        /\ Cardinality({i \in 1..Len(articles) : ScoreAt[i] <= m}) >= k

EvenStatistics ==
    stats # Unset /\ Len(articles) > 0 /\ Len(articles) % 2 = 0

\* C8 as stated: for an even number of scores the median is the lower of
\* the two middle elements of the sorted scores.
MedianIsLowerMiddle ==
    EvenStatistics => stats.v.median = KthSmallest(Len(articles) \div 2)

\* C8 as amended: for an even number of scores the median is the upper of
\* the two middle elements of the sorted scores, the element at index
\* floor(n/2) counted from 0.
MedianIsUpperMiddle ==
    EvenStatistics => stats.v.median = KthSmallest(Len(articles) \div 2 + 1)

\* Of the scores -1, 0, 1, 2 the median reported is 1.
MedianIsUpperMiddleWitness ==
    /\ stats # Unset
    /\ ScoreAt = <<2, -1, 1, 0>>
    /\ stats.v.median = 1

StatisticsFields == {"min", "max", "mean", "median", "total_articles", "zero_score"}

\* C9: get_statistics returns all six fields for every list, the empty list
\* included, where total_articles and zero_score are 0.
StatisticsHasSixFields ==
    stats # Unset =>
        /\ DOMAIN stats.v = StatisticsFields
        /\ articles = <<>> => stats.v.total_articles = 0 /\ stats.v.zero_score = 0

\* C10: for a non-empty list min and max are the smallest and the largest
\* score, median the element at index floor(n/2) of the sorted scores,
\* total_articles the length and zero_score the number of records scoring 0
\* or having no score; min <= median <= max.
StatisticsOfNonEmptyList ==
    (stats # Unset /\ articles # <<>>) =>
        LET n == Len(articles)
            st == stats.v
        IN /\ st.min \in Range(ScoreAt) /\ \A i \in 1..n : st.min <= ScoreAt[i]
           /\ st.max \in Range(ScoreAt) /\ \A i \in 1..n : st.max >= ScoreAt[i]
           /\ st.median = KthSmallest(n \div 2 + 1)
           /\ st.total_articles = n
           /\ st.zero_score = Cardinality({i \in 1..n : ScoreOf(articles[i]) = 0})
           /\ st.min <= st.median /\ st.median <= st.max

\* A record without a score has counted as a zero.
StatisticsOfNonEmptyListWitness ==
    /\ stats # Unset
    /\ Len(articles) = 3
    /\ "score" \notin DOMAIN articles[1]
    /\ ScoreAt = <<0, 2, -1>>
    /\ stats.v.zero_score = 1
    /\ stats.v.median = 0
    /\ stats.v.min = -1
    /\ stats.v.max = 2

(***************************************************************************)
(* The ranker in use: constructed with at most one boost phrase, then      *)
(* asked to rank, to give the top n and to give the statistics of a list   *)
(* of at most MaxArticles articles.                                        *)
(***************************************************************************)
TopSizes == {Unset} \cup {PyInt(k) : k \in (0 - 1)..(MaxArticles + 1)}

InitRanker ==
    /\ DedupIdle
    /\ BacklogIdle
    /\ FetchIdle
    /\ boost_keywords \in BoostConfigs(1)
    /\ boost_keywords_lower = Unset
    /\ articles \in ArticleLists(MaxArticles)
    /\ ranked = Unset
    /\ stats = Unset
    /\ top_n = Unset
    /\ top = Unset
    /\ text = Unset
    /\ NormIdle
    /\ MatchIdle
    /\ ExtractIdle

\* ArticleRanker.get_top_articles
GetTopArticles ==
    /\ boost_keywords_lower # Unset
    /\ top = Unset
    /\ \E n \in TopSizes :
          /\ top_n' = n
          /\ top' = get_top_articles(boost_keywords_lower.v, articles, n)
    /\ UNCHANGED <<backlogVars, fetchVars,
                   dedupVars, normVars, matchVars, extractVars, boost_keywords,
                   boost_keywords_lower, articles, ranked, stats>>

NextRanker == Construct \/ RankArticles \/ GetTopArticles \/ GetStatistics

SpecRanker == InitRanker /\ [][NextRanker]_vars

\* C11: get_statistics on the empty list raises no error and returns min,
\* max, mean and median 0; rank_articles on the empty list returns the
\* empty list.
EmptyListIsHandled ==
    articles = <<>> =>
        /\ stats # Unset =>
              /\ {"min", "max", "mean", "median"} \subseteq DOMAIN stats.v
              /\ stats.v.min = 0
              /\ stats.v.max = 0
              /\ stats.v.mean = Quotient(0, 1)
              /\ stats.v.median = 0
        /\ ranked # Unset => ranked = PyList(<<>>)

EmptyListIsHandledWitness ==
    /\ articles = <<>>
    /\ stats # Unset
    /\ stats.v.median = 0
    /\ ranked = PyList(<<>>)

TopSize == IF top_n = Unset THEN 15 ELSE top_n.v

\* C12: get_top_articles(articles, n) is the first n records of
\* rank_articles(articles) in the same order, all of them when n is at
\* least the number of articles; for n >= 0 its length is min(n, number of
\* articles), and n is 15 when the caller gives none.
TopIsPrefixOfRanked ==
    (top # Unset /\ ranked # Unset /\ TopSize >= 0) =>
        /\ top.t = "list"
        /\ Len(top.v) = IF TopSize < Len(articles) THEN TopSize ELSE Len(articles)
        /\ \A i \in 1..Len(top.v) : top.v[i] = ranked.v[i]
        /\ TopSize >= Len(articles) => top = ranked

\* The top two of three articles, the first of which was not first in the
\* input.
TopIsPrefixOfRankedWitness ==
    /\ top # Unset
    /\ ranked # Unset
    /\ top_n = PyInt(2)
    /\ Len(articles) = 3
    /\ Len(top.v) = 2
    /\ top.v[1].url # articles[1].url
    /\ top.v[1].score.v > top.v[2].score.v

(***************************************************************************)
(* One article, tagged by the extractor and scored by the ranker.  Its     *)
(* title is any of a string, None, a number, a list or absent; keywords    *)
(* and abstract are given, None or absent.                                 *)
(***************************************************************************)
ArticleTitles ==
    { PyNone, PyInt(0), PyInt(5), PyList(<<>>),
      PyList(<<PyStr(Chars("Auckland"))>>),
      PyStr(<<>>),
      PyStr(Chars("Housing policy in Auckland")),
      PyStr(Chars("Surveying Aucklanders")),
      PyStr(Chars("Resurvey")) }

ArticleKeywords ==
    { PyNone, PyList(<<>>),
      PyList(<<PyStr(Chars("survey")), PyStr(Chars("housing-policy"))>>) }

ArticleAbstracts == { PyNone, PyStr(<<>>), PyStr(Chars("Tenants of Rotorua")) }

ArticlePool ==
    { t @@ k @@ a :
        t \in WithField("title", ArticleTitles),
        k \in WithField("keywords", ArticleKeywords),
        a \in WithField("abstract", ArticleAbstracts) }

\* an article may carry a score from an earlier ranking
ArticlesWithOldScore == {a @@ sc : a \in ArticlePool, sc \in WithField("score", {PyInt(99)})}

ArticleBoosts ==
    { <<>>,
      <<Item(Chars("survey"), 20)>>,
      <<Item(Chars("Auckland"), 15)>>,
      <<Item(Chars("housing-policy"), 40)>>,
      <<Item(Chars("survey"), 20), Item(Chars("Auckland"), 15)>> }

InitArticle ==
    /\ DedupIdle
    /\ BacklogIdle
    /\ FetchIdle
    /\ article \in ArticlesWithOldScore
    /\ articles = <<article>>
    /\ tags = NoTags
    /\ extracted = Unset
    /\ boost_keywords \in ArticleBoosts
    /\ boost_keywords_lower = Unset
    /\ ranked = Unset
    /\ stats = Unset
    /\ top_n = Unset
    /\ top = Unset
    /\ text = Unset
    /\ NormIdle
    /\ MatchIdle

NextArticle == Construct \/ RankArticles \/ ExtractAll

SpecArticle == InitArticle /\ [][NextArticle]_vars

Missing(a, f) == f \notin DOMAIN a \/ a[f] = PyNone

\* the article with keywords = [] and abstract = '' where they are missing
Defaulted(a) ==
    [f \in DOMAIN a \cup {"keywords", "abstract"} |->
        IF f = "keywords" /\ Missing(a, f) THEN PyList(<<>>)
        ELSE IF f = "abstract" /\ Missing(a, f) THEN PyStr(<<>>)
        ELSE a[f]]

StringTitle(a) == "title" \in DOMAIN a /\ a.title.t = "str"

\* C13: an article whose keywords or abstract is absent or None is scored
\* and tagged without error, with the results of the same article with
\* keywords = [] and abstract = ''.
MissingFieldsAreEmpty ==
    (StringTitle(article)
        /\ (Missing(article, "keywords") \/ Missing(article, "abstract"))) =>
        /\ extracted # Unset =>
              /\ extracted.t = "dict"
              /\ extracted = extract_all(Defaulted(article))
        /\ ranked # Unset =>
              /\ ranked.t = "list"
              /\ ranked.v[1].score
                     = _calculate_score(boost_keywords_lower.v, Defaulted(article))
              /\ ranked.v[1].score
                     = PyInt(SumOfWeights(boost_keywords,
                                 OccurringItems(boost_keywords, Defaulted(article))))

\* A title alone, with keywords None and no abstract, is tagged and scored.
MissingFieldsAreEmptyWitness ==
    /\ article = [title |-> PyStr(Chars("Housing policy in Auckland")),
                  keywords |-> PyNone]
    /\ extracted # Unset
    /\ extracted.v.geography = <<"Auckland">>
    /\ ranked # Unset
    /\ ranked.v[1].score = PyInt(40)

NonStringTitle(a) == "title" \in DOMAIN a /\ a.title.t # "str"

\* C14: an article whose title is not a string (None, a number, a list)
\* makes both rank_articles and extract_all fail with an error.
NonStringTitleFails ==
    NonStringTitle(article) =>
        /\ extracted # Unset => extracted.t = "raise"
        /\ ranked # Unset => ranked.t = "raise"

\* C15: rank_articles and extract_all leave their inputs as they were: the
\* input list, and every field of every input record, the absence or the
\* old value of its score included; the score is in the returned copies.
InputsUnchanged ==
    [][/\ articles' = articles
       /\ article' = article
       /\ (ranked = Unset /\ ranked' # Unset /\ ranked'.t = "list") =>
             \A i \in 1..Len(ranked'.v) : "score" \in DOMAIN ranked'.v[i]]_vars

\* Ranked and tagged, the input article has no score and the copy has one.
InputsUnchangedWitness ==
    /\ ranked # Unset
    /\ extracted # Unset
    /\ ranked.t = "list"
    /\ "score" \notin DOMAIN articles[1]
    /\ articles = <<article>>
    /\ ranked.v[1].score = PyInt(35)

\* the first source of the article in which the taxonomy matches, 0 if none
DecidingSource(a, taxonomy) ==
    LET results == SourceMatches(a, TaxonomyDictionary(taxonomy))
        hits == {i \in 1..3 : results[i] # <<>>}
    IN IF hits = {} THEN 0 ELSE CHOOSE i \in hits : \A j \in hits : i <= j

\* C16: the three taxonomies are extracted independently: whichever source
\* decides one taxonomy, each other taxonomy has the matches of its own
\* first matching source; a title matching only a geography label with
\* keywords matching only a method label gives the geography tag of the
\* title and the method tag of the keywords in one extract_all result.
TaxonomiesAreIndependent ==
    (article # Unset /\ extracted # Unset) =>
        /\ \A x, y \in Taxonomies :
              LET dx == DecidingSource(article, x)
                  dy == DecidingSource(article, y)
              IN (dx # 0 /\ dy # 0 /\ dx # dy) =>
                    /\ extracted.v[x] = SourceMatches(article, TaxonomyDictionary(x))[dx]
                    /\ extracted.v[y] = SourceMatches(article, TaxonomyDictionary(y))[dy]
        /\ ( /\ SourceMatches(article, GEOGRAPHY_KEYWORDS)[1] # <<>>
             /\ SourceMatches(article, METHOD_KEYWORDS)[1] = <<>>
             /\ SourceMatches(article, METHOD_KEYWORDS)[2] # <<>> )
           => /\ extracted.v.geography = SourceMatches(article, GEOGRAPHY_KEYWORDS)[1]
              /\ extracted.v.methods = SourceMatches(article, METHOD_KEYWORDS)[2]

\* Geography from the title and method from the keywords, together.
TaxonomiesAreIndependentWitness ==
    /\ article = [title |-> PyStr(Chars("Housing in Auckland")),
                  keywords |-> PyList(<<PyStr(Chars("counter-mapping"))>>)]
    /\ extracted # Unset
    /\ extracted.v.geography = <<"Auckland">>
    /\ extracted.v.methods = <<"counter-mapping">>
    /\ extracted.v.stakeholders = <<>>

\* C17: every entry of the boost configuration whose phrase occurs in the
\* article adds its weight to the score, also when two entries differ only
\* in letter case or only in hyphen versus space.
EveryOccurringEntryCounts ==
    Ranked =>
        \A j \in 1..Len(ranked.v) :
            ranked.v[j].score =
                PyInt(SumOfWeights(boost_keywords,
                                   OccurringItems(boost_keywords, ranked.v[j])))

\* some stretch of the text is the phrase
Contains(txt, phrase) ==
    \E i \in 1..(Len(txt) - Len(phrase) + 1) :
        SubSeq(txt, i, i + Len(phrase) - 1) = phrase

\* the sources of the article in which the phrase occurs at all
SourcesHolding(phrase, a) ==
    {i \in 1..3 :
        article_sources(a)[i].t = "str"
            /\ Contains(HyphensToSpaces(str_lower(article_sources(a)[i].v)),
                        HyphensToSpaces(str_lower(phrase)))}

\* the entries of the configuration whose phrase the article contains
ContainedItems(config, a) ==
    {i \in 1..Len(config) :
        Contains(CombinedSearchString(a),
                 HyphensToSpaces(str_lower(config[i].phrase)))}

\* the phrase occurs in the article, and nowhere as a whole word or phrase
OnlyInsideWords(phrase, a) ==
    /\ SourcesHolding(phrase, a) # {}
    /\ \A i \in 1..3 : ~WholePhraseOccurs(phrase, article_sources(a)[i])

\* the labels whose only alias occurring in the article is the phrase,
\* inside longer words
LabelsOfPhrase(phrase, a, dict) ==
    {dict[k].canonical : k \in
        {k \in 1..Len(dict) :
            /\ \E al \in Range(dict[k].aliases) :
                  _normalize(PyStr(al)) = _normalize(PyStr(phrase))
            /\ \A al \in Range(dict[k].aliases), i \in 1..3 :
                  ~WholePhraseOccurs(al, article_sources(a)[i])}}

\* C18: a phrase that occurs in an article only inside longer words adds
\* its weight to the score as a boost phrase and yields no tag as a
\* dictionary alias.
RankerMatchesInsideWords ==
    (StringTitle(article) /\ ranked # Unset /\ extracted # Unset) =>
        \A i \in 1..Len(boost_keywords) :
            OnlyInsideWords(boost_keywords[i].phrase, article) =>
                /\ i \in ContainedItems(boost_keywords, article)
                /\ ranked.v[1].score
                       = PyInt(SumOfWeights(boost_keywords,
                                   ContainedItems(boost_keywords, article)))
                /\ \A x \in Taxonomies :
                      LabelsOfPhrase(boost_keywords[i].phrase, article,
                                     TaxonomyDictionary(x))
                          \cap Range(extracted.v[x]) = {}

\* "Surveying Aucklanders" scores for survey and Auckland and has neither tag.
RankerMatchesInsideWordsWitness ==
    /\ article = [title |-> PyStr(Chars("Surveying Aucklanders"))]
    /\ boost_keywords = <<Item(Chars("survey"), 20), Item(Chars("Auckland"), 15)>>
    /\ ranked # Unset
    /\ ranked.v[1].score = PyInt(35)
    /\ extracted # Unset
    /\ extracted.v.methods = <<>>
    /\ extracted.v.geography = <<>>

(***************************************************************************)
(* The deduplicator.  seen maps an article id to the date it was first     *)
(* seen; the seen file holds what the last mark_as_seen saved.             *)
(***************************************************************************)
\* f"doi:{article['doi']}"
doi_id_of(a) == Chars("doi:") \o a.doi.v

\* f"url:{article['url']}"
url_id_of(a) == Chars("url:") \o a.url.v

has_doi(a) == Truthy(dict_get(a, "doi", PyNone))

_get_article_id(a) == IF has_doi(a) THEN doi_id_of(a) ELSE url_id_of(a)

\* filter_new looking an article up under its article id only
RECURSIVE filter_new_by_article_id(_, _, _)
filter_new_by_article_id(seen_, as, new) ==
    IF as = <<>> THEN new
    ELSE filter_new_by_article_id(seen_, Tail(as),
             IF _get_article_id(Head(as)) \in DOMAIN seen_ THEN new
             ELSE Append(new, Head(as)))

RECURSIVE filter_new(_, _, _)
filter_new(seen_, as, new) ==
    IF as = <<>> THEN new
    ELSE LET a == Head(as)
             seen_by_doi == has_doi(a) /\ doi_id_of(a) \in DOMAIN seen_
             seen_by_url == url_id_of(a) \in DOMAIN seen_
         IN filter_new(seen_, Tail(as),
                       IF seen_by_doi \/ seen_by_url THEN new ELSE Append(new, a))

\* the loop of mark_as_seen writing today's date for every article
RECURSIVE mark_as_seen_again(_, _, _)
mark_as_seen_again(seen_, as, today) ==
    IF as = <<>> THEN seen_
    ELSE LET article_id == _get_article_id(Head(as))
         IN mark_as_seen_again(
                [k \in DOMAIN seen_ \cup {article_id} |->
                    IF k = article_id THEN today ELSE seen_[k]],
                Tail(as), today)

\* the loop of mark_as_seen
RECURSIVE mark_as_seen(_, _, _)
mark_as_seen(seen_, as, today) ==
    IF as = <<>> THEN seen_
    ELSE LET article_id == _get_article_id(Head(as))
         IN mark_as_seen(IF article_id \in DOMAIN seen_ THEN seen_
                         ELSE seen_ @@ (article_id :> today),
                         Tail(as), today)

\* a missing file gives an empty store
_load_seen(file) == IF file = Unset THEN <<>> ELSE file

DedupArticle(title, url, doi) ==
    [title |-> PyStr(Chars(title)), url |-> PyStr(Chars(url)), doi |-> doi]

DedupPool ==
    { DedupArticle("Article 1", "http://example.com/1", PyStr(Chars("10.1234/abc"))),
      DedupArticle("Article 1", "http://different.com/2", PyStr(Chars("10.1234/abc"))),
      DedupArticle("Article 1", "http://example.com/1", PyNone),
      DedupArticle("Article 1", "http://example.com/1", PyStr(Chars("10.1234/def"))) }

\* the lists of at most n different articles
RECURSIVE DedupBatches(_)
DedupBatches(n) ==
    IF n = 0 THEN {<<>>}
    ELSE LET shorter == DedupBatches(n - 1)
         IN shorter \cup
            UNION {{Append(b, a) : a \in DedupPool \ Range(b)} : b \in shorter}

Days == {Chars("2026-01-01"), Chars("2026-01-02")}

InitDedup ==
    /\ BacklogIdle
    /\ FetchIdle
    /\ seen_file = Unset
    /\ seen = _load_seen(seen_file)
    /\ new_articles = Unset
    /\ marked = {}
    /\ last_call = "__init__"
    /\ text = Unset
    /\ NormIdle
    /\ MatchIdle
    /\ ExtractIdle
    /\ RankIdle

\* Deduplicator.__init__ on the same seen file
Recreate ==
    /\ seen' = _load_seen(seen_file)
    /\ last_call' = "__init__"
    /\ UNCHANGED <<backlogVars, fetchVars,
                   normVars, matchVars, extractVars, rankVars, seen_file,
                   new_articles, marked>>

FilterNew ==
    /\ articles' \in DedupBatches(MaxBatch)
    /\ new_articles' = PyList(filter_new(seen, articles', <<>>))
    /\ last_call' = "filter_new"
    /\ UNCHANGED <<backlogVars, fetchVars,
                   normVars, matchVars, extractVars, boost_keywords,
                   boost_keywords_lower, ranked, stats, top_n, top, seen,
                   seen_file, marked>>

\* mark_as_seen without its _save_seen
MarkAsSeenUnsaved ==
    /\ \E batch \in DedupBatches(MaxBatch), today \in Days :
          /\ seen' = mark_as_seen(seen, batch, today)
          /\ marked' = marked \cup Range(batch)
    /\ last_call' = "mark_as_seen"
    /\ UNCHANGED <<backlogVars, fetchVars,
                   normVars, matchVars, extractVars, rankVars, seen_file,
                   new_articles>>

MarkAsSeen ==
    /\ \E batch \in DedupBatches(MaxBatch), today \in Days :
          /\ seen' = mark_as_seen(seen, batch, today)
          /\ seen_file' = seen'
          /\ marked' = marked \cup Range(batch)
    /\ last_call' = "mark_as_seen"
    /\ UNCHANGED <<backlogVars, fetchVars,
                   normVars, matchVars, extractVars, rankVars, new_articles>>

NextDedup == Recreate \/ FilterNew \/ MarkAsSeen

SpecDedup == InitDedup /\ [][NextDedup]_vars

\* the DOI of an article, NoDoi when it has none
NoDoi == <<>>
DoiOf(a) ==
    IF "doi" \in DOMAIN a /\ a.doi.t = "str" THEN a.doi.v ELSE NoDoi

SharesDoi(a, b) == DoiOf(a) # NoDoi /\ DoiOf(a) = DoiOf(b)

SharesUrl(a, b) == a.url = b.url

Filtered == last_call = "filter_new"

Returned(a) == a \in Range(new_articles.v)

\* C19: an article once passed to mark_as_seen is returned by no later
\* filter_new, whatever calls came between and also after the Deduplicator
\* has been re-created from the seen file; an article never marked that
\* shares no DOI and no URL with a marked one is returned.
MarkedIsNeverNew ==
    Filtered =>
        /\ \A a \in marked : ~Returned(a)
        /\ \A i \in 1..Len(articles) :
              (\A m \in marked : ~SharesDoi(articles[i], m)
                                    /\ ~SharesUrl(articles[i], m))
                  => Returned(articles[i])

\* Of a marked and an unrelated article, filter_new returned the unrelated.
MarkedIsNeverNewWitness ==
    /\ Filtered
    /\ Len(articles) = 2
    /\ articles[1] \in marked
    /\ \A m \in marked : ~SharesDoi(articles[2], m) /\ ~SharesUrl(articles[2], m)
    /\ new_articles = PyList(<<articles[2]>>)
    /\ Cardinality(DOMAIN seen) = 1

\* C20: filter_new excludes an article with the DOI of a marked article,
\* also under another URL, and an article that has a DOI now when its URL
\* was marked without one.
SeenByDoiOrUrl ==
    Filtered =>
        \A i \in 1..Len(articles) :
            LET a == articles[i]
            IN /\ (\E m \in marked : SharesDoi(a, m)) => ~Returned(a)
               /\ (\E m \in marked : DoiOf(m) = NoDoi /\ SharesUrl(a, m))
                     => ~Returned(a)

\* Marked without a DOI, the URL comes back with one and is excluded; the
\* DOI marked under one URL is excluded under another.
SeenByDoiOrUrlWitness ==
    /\ Filtered
    /\ Len(articles) = 2
    /\ new_articles = PyList(<<>>)
    /\ DoiOf(articles[1]) # NoDoi
    /\ articles[1] \notin marked
    /\ \E m \in marked : DoiOf(m) = NoDoi /\ SharesUrl(articles[1], m)
    /\ \A m \in marked : ~SharesDoi(articles[1], m)
    /\ articles[2] \notin marked
    /\ \E m \in marked : SharesDoi(articles[2], m) /\ ~SharesUrl(articles[2], m)
    /\ \A m \in marked : DoiOf(m) = NoDoi => ~SharesUrl(articles[2], m)

\* C24: filter_new excludes an article whenever its DOI or its URL is that
\* of an article marked earlier, also when the marked article had a DOI and
\* the later one has its URL with no DOI or with another DOI.
SeenByAnySharedDoiOrUrl ==
    Filtered =>
        \A i \in 1..Len(articles) :
            (\E m \in marked : SharesDoi(articles[i], m) \/ SharesUrl(articles[i], m))
                => ~Returned(articles[i])

\* C30: the seen store only grows: no identifier is removed, the date of an
\* identifier never changes once written, and filter_new leaves the store
\* and its file as they are.
SeenOnlyGrows ==
    [][/\ \A k \in DOMAIN seen : k \in DOMAIN seen' /\ seen'[k] = seen[k]
       /\ seen_file # Unset =>
             /\ seen_file' # Unset
             /\ \A k \in DOMAIN seen_file :
                   k \in DOMAIN seen_file' /\ seen_file'[k] = seen_file[k]
       /\ last_call' = "filter_new" => seen' = seen /\ seen_file' = seen_file]_vars

\* A DOI marked on the first day and marked again under another URL, with
\* an identifier of the second day beside it, still has the first day.
SeenOnlyGrowsWitness ==
    /\ \E a, b \in marked : a # b /\ SharesDoi(a, b)
                               /\ doi_id_of(a) \in DOMAIN seen
                               /\ seen[doi_id_of(a)] = Chars("2026-01-01")
    /\ \E k \in DOMAIN seen : seen[k] = Chars("2026-01-02")
    /\ Filtered
    /\ seen_file = seen

(***************************************************************************)
(* The backlog manager.  backlog holds the items of the dictionary          *)
(* article id -> entry in insertion order; the backlog file holds what the  *)
(* last save wrote.                                                         *)
(***************************************************************************)
\* BacklogManager._get_article_id
backlog_article_id(a) ==
    IF Truthy(dict_get(a, "doi", PyNone))
    THEN Chars("doi:") \o a.doi.v
    ELSE Chars("url:") \o dict_get(a, "url", PyStr(<<>>)).v

BacklogItem(id, entry) == [id |-> id, entry |-> entry]

backlog_ids(b) == {b[i].id : i \in 1..Len(b)}

\* self.backlog.get(article_id, {})
backlog_get(b, id) ==
    IF id \in backlog_ids(b)
    THEN (CHOOSE it \in Range(b) : it.id = id).entry
    ELSE <<>>

\* self.backlog[article_id] = entry
backlog_set(b, id, entry) ==
    IF id \in backlog_ids(b)
    THEN [i \in 1..Len(b) |-> IF b[i].id = id THEN BacklogItem(id, entry) ELSE b[i]]
    ELSE Append(b, BacklogItem(id, entry))

\* del self.backlog[article_id]
RECURSIVE backlog_del(_, _)
backlog_del(b, id) ==
    IF b = <<>> THEN <<>>
    ELSE IF Head(b).id = id THEN backlog_del(Tail(b), id)
         ELSE <<Head(b)>> \o backlog_del(Tail(b), id)

\* note or entry.get('note')
note_or_kept(note, entry) ==
    IF Truthy(note) THEN note ELSE dict_get(entry, "note", PyNone)

add_to_backlog_reset(b, a, tier, note, today) ==
    LET article_id == backlog_article_id(a)
        entry == backlog_get(b, article_id)
        updated == [title |-> dict_get(a, "title", PyNone),
                    doi |-> dict_get(a, "doi", PyNone),
                    url |-> dict_get(a, "url", PyNone),
                    tier |-> tier,
                    status |-> PyStr(Chars("queued")),
                    date_added |-> dict_get(entry, "date_added", PyStr(today)),
                    note |-> note_or_kept(note, entry)] @@ entry
    IN backlog_set(b, article_id, updated)

add_to_backlog(b, a, tier, note, today) ==
    LET article_id == backlog_article_id(a)
        entry == backlog_get(b, article_id)
        updated == [title |-> dict_get(a, "title", PyNone),
                    doi |-> dict_get(a, "doi", PyNone),
                    url |-> dict_get(a, "url", PyNone),
                    tier |-> tier,
                    status |-> dict_get(entry, "status", PyStr(Chars("queued"))),
                    date_added |-> dict_get(entry, "date_added", PyStr(today)),
                    note |-> note_or_kept(note, entry)] @@ entry
    IN backlog_set(b, article_id, updated)

\* {**entry, 'id': article_id}
with_id(it) == ("id" :> PyStr(it.id)) @@ it.entry

RECURSIVE list_backlog_status_only(_, _, _)
list_backlog_status_only(b, tier, status) ==
    IF b = <<>> THEN <<>>
    ELSE LET entry == Head(b).entry
             rest == list_backlog_status_only(Tail(b), tier, status)
         IN IF Truthy(status) /\ dict_get(entry, "status", PyNone) # status
            THEN rest
            ELSE <<with_id(Head(b))>> \o rest

RECURSIVE list_backlog(_, _, _)
list_backlog(b, tier, status) ==
    IF b = <<>> THEN <<>>
    ELSE LET entry == Head(b).entry
             rest == list_backlog(Tail(b), tier, status)
         IN IF Truthy(tier) /\ dict_get(entry, "tier", PyNone) # tier
            THEN rest
            ELSE IF Truthy(status) /\ dict_get(entry, "status", PyNone) # status
                 THEN rest
                 ELSE <<with_id(Head(b))>> \o rest

\* the body of mark_processed for an article_id that is in the backlog
mark_processed(b, article_id, status, note, today) ==
    LET entry == backlog_get(b, article_id)
        marked_ == ("status" :> status) @@ entry
        noted == IF Truthy(note) THEN ("note" :> note) @@ marked_ ELSE marked_
    IN backlog_set(b, article_id,
                   ("date_processed" :> PyStr(today)) @@ noted)

\* json.dump(self.backlog, f): the file holds the items as they are
Json(b) == [t |-> "json", v |-> b]

\* a missing file starts an empty backlog
_load_backlog(file) == IF file.t = "unset" THEN <<>> ELSE file.v

BacklogArticle(title, url, doi) ==
    [title |-> PyStr(Chars(title)), url |-> PyStr(Chars(url)), doi |-> doi]

BacklogPool ==
    { BacklogArticle("Test Article", "https://example.com/test1",
                     PyStr(Chars("10.1000/test1"))),
      BacklogArticle("Test Article (corrected)", "https://example.com/test2",
                     PyStr(Chars("10.1000/test1"))),
      BacklogArticle("Test Article", "https://example.com/test1", PyNone) }

\* the ids handed to mark_processed and remove: those of the pool and one
\* that is never added
BacklogIds ==
    {backlog_article_id(a) : a \in BacklogPool} \cup {Chars("doi:10.1000/none")}

Tiers == {PyStr(Chars("A")), PyStr(Chars("F"))}
AddNotes == {PyNone, PyStr(<<>>), PyStr(Chars("important"))}
MarkStatuses == {PyStr(Chars("reviewed")), PyStr(Chars("queued"))}
MarkNotes == {PyNone, PyStr(Chars("checked"))}
MarkDays == {Chars("2026-01-02")}
TierFilters == {PyNone, PyStr(<<>>), PyStr(Chars("A"))}
StatusFilters == {PyNone, PyStr(Chars("queued")), PyStr(Chars("reviewed"))}

InitBacklog ==
    /\ backlog_file = Unset
    /\ backlog = _load_backlog(backlog_file)
    /\ called = [op |-> "__init__"]
    /\ text = Unset
    /\ NormIdle
    /\ MatchIdle
    /\ ExtractIdle
    /\ RankIdle
    /\ DedupIdle
    /\ FetchIdle

BacklogOthers ==
    <<normVars, matchVars, extractVars, rankVars, dedupVars, fetchVars>>

RecreateBacklog ==
    /\ backlog' = _load_backlog(backlog_file)
    /\ called' = [op |-> "__init__"]
    /\ UNCHANGED <<BacklogOthers, backlog_file>>

AddToBacklog ==
    /\ \E a \in BacklogPool, tier \in Tiers, note \in AddNotes, today \in Days :
          /\ backlog' = add_to_backlog(backlog, a, tier, note, today)
          /\ called' = [op |-> "add_to_backlog", article |-> a, tier |-> tier,
                        note |-> note, result |-> backlog_article_id(a)]
    /\ backlog_file' = Json(backlog')
    /\ UNCHANGED BacklogOthers

ListBacklog ==
    /\ \E tier \in TierFilters, status \in StatusFilters :
          called' = [op |-> "list_backlog", tier |-> tier, status |-> status,
                     result |-> list_backlog(backlog, tier, status)]
    /\ UNCHANGED <<BacklogOthers, backlog, backlog_file>>

MarkProcessed ==
    /\ \E article_id \in BacklogIds, status \in MarkStatuses, note \in MarkNotes,
          today \in MarkDays :
          IF article_id \notin backlog_ids(backlog)
          THEN /\ called' = [op |-> "mark_processed", article_id |-> article_id,
                             status |-> status, note |-> note,
                             result |-> Raise("KeyError")]
               /\ UNCHANGED <<backlog, backlog_file>>
          ELSE /\ backlog' = mark_processed(backlog, article_id, status, note, today)
               /\ backlog_file' = Json(backlog')
               /\ called' = [op |-> "mark_processed", article_id |-> article_id,
                             status |-> status, note |-> note, result |-> PyNone]
    /\ UNCHANGED BacklogOthers

RemoveAlwaysSaving ==
    /\ \E article_id \in BacklogIds :
          /\ backlog' = backlog_del(backlog, article_id)
          /\ backlog_file' = Json(backlog')
          /\ called' = [op |-> "remove", article_id |-> article_id,
                        result |-> PyNone]
    /\ UNCHANGED BacklogOthers

Remove ==
    /\ \E article_id \in BacklogIds :
          /\ IF article_id \in backlog_ids(backlog)
             THEN /\ backlog' = backlog_del(backlog, article_id)
                  /\ backlog_file' = Json(backlog')
             ELSE UNCHANGED <<backlog, backlog_file>>
          /\ called' = [op |-> "remove", article_id |-> article_id,
                        result |-> PyNone]
    /\ UNCHANGED BacklogOthers

NextBacklog ==
    RecreateBacklog \/ AddToBacklog \/ ListBacklog \/ MarkProcessed \/ Remove

SpecBacklog == InitBacklog /\ [][NextBacklog]_vars

\* the items of a listing result that carry the id of an item
Listed(result, it) == {i \in 1..Len(result) : result[i].id = PyStr(it.id)}

\* a listing result holds the item once, with the fields of its entry
ListedOnce(result, it) ==
    /\ Cardinality(Listed(result, it)) = 1
    /\ \A i \in Listed(result, it) :
          /\ DOMAIN result[i] = DOMAIN it.entry \cup {"id"}
          /\ \A k \in DOMAIN it.entry : result[i][k] = it.entry[k]

\* a filter is in force when it is a non-empty string
InForce(filter) == filter # PyNone /\ filter # PyStr(<<>>)

\* a filter is given when it is not None
Given(filter) == filter # PyNone

Queued == PyStr(Chars("queued"))

ListedUnderStatus(id, status) ==
    \E e \in Range(list_backlog(backlog, PyNone, status)) : e.id = PyStr(id)

MarkedAs(status) ==
    /\ called.op = "mark_processed"
    /\ called.result = PyNone
    /\ called.status = status

\* C23 as stated: list_backlog(tier, status) returns exactly the entries
\* whose tier is the given tier and whose status is the given status, a
\* filter counting as given whenever it is not None, each once and with its
\* id; and after mark_processed(id, status = s), for every s, the entry is
\* listed under status s and not under status 'queued'.
ListAndMarkAgreeForEveryArgument ==
    /\ called.op = "list_backlog" =>
          \A it \in Range(backlog) :
              IF /\ Given(called.tier) => it.entry.tier = called.tier
                 /\ Given(called.status) => it.entry.status = called.status
              THEN ListedOnce(called.result, it)
              ELSE Listed(called.result, it) = {}
    /\ \A s \in MarkStatuses :
          MarkedAs(s) =>
              /\ ListedUnderStatus(called.article_id, s)
              /\ ~ListedUnderStatus(called.article_id, Queued)

\* C23, amended: list_backlog(tier, status) returns exactly the entries
\* whose tier is the given tier and whose status is the given status, an
\* empty string counting as no filter like None, each once and with its id
\* and nothing else; and after mark_processed(id, status = s) with s other
\* than 'queued' the entry is listed under status s and not under 'queued'.
ListAndMarkAgree ==
    /\ called.op = "list_backlog" =>
          /\ \A it \in Range(backlog) :
                IF /\ InForce(called.tier) => it.entry.tier = called.tier
                   /\ InForce(called.status) => it.entry.status = called.status
                THEN ListedOnce(called.result, it)
                ELSE Listed(called.result, it) = {}
          /\ \A i \in 1..Len(called.result) :
                \E it \in Range(backlog) : called.result[i].id = PyStr(it.id)
    /\ \A s \in MarkStatuses \ {Queued} :
          MarkedAs(s) =>
              /\ ListedUnderStatus(called.article_id, s)
              /\ ~ListedUnderStatus(called.article_id, Queued)

\* Two entries of tier A, one reviewed and one queued, listed by tier A and
\* status reviewed: the result is the reviewed entry alone.
ListAndMarkAgreeWitness ==
    /\ called.op = "list_backlog"
    /\ called.tier = PyStr(Chars("A"))
    /\ called.status = PyStr(Chars("reviewed"))
    /\ Len(backlog) = 2
    /\ \A i \in 1..2 : backlog[i].entry.tier = PyStr(Chars("A"))
    /\ backlog[1].entry.status = Queued
    /\ backlog[2].entry.status = PyStr(Chars("reviewed"))
    /\ Len(called.result) = 1
    /\ called.result[1].id = PyStr(backlog[2].id)

\* the id the claim gives an article: doi:<doi> with a DOI, else url:<url>
ClaimedId(a) ==
    IF a.doi # PyNone /\ a.doi.v # <<>> THEN Chars("doi:") \o a.doi.v
    ELSE Chars("url:") \o a.url.v

EntryOf(b, id) == (CHOOSE it \in Range(b) : it.id = id).entry

ReAdded ==
    /\ called'.op = "add_to_backlog"
    /\ ClaimedId(called'.article) \in backlog_ids(backlog)

\* C28: add_to_backlog for an article whose id is already in the backlog
\* keeps one entry for the id, preserves its status and date_added,
\* overwrites title, doi, url and tier, and replaces the note only when the
\* new note is a non-empty string.
ReAddKeepsStatusAndDate ==
    [][ReAdded =>
          LET id == ClaimedId(called'.article)
              old == EntryOf(backlog, id)
              new == EntryOf(backlog', id)
          IN /\ Cardinality({i \in 1..Len(backlog') : backlog'[i].id = id}) = 1
             /\ Len(backlog') = Len(backlog)
             /\ new.status = old.status
             /\ new.date_added = old.date_added
             /\ new.title = called'.article.title
             /\ new.doi = called'.article.doi
             /\ new.url = called'.article.url
             /\ new.tier = called'.tier
             /\ new.note = IF InForce(called'.note) THEN called'.note
                           ELSE old.note]_vars

\* An entry added on the first day, reviewed with the note 'checked', and
\* added again with another title, tier F and an empty note: it is still
\* reviewed, dated the first day and noted 'checked'.
ReAddKeepsStatusAndDateWitness ==
    /\ called.op = "add_to_backlog"
    /\ called.note = PyStr(<<>>)
    /\ called.tier = PyStr(Chars("F"))
    /\ called.article.title = PyStr(Chars("Test Article (corrected)"))
    /\ LET e == EntryOf(backlog, called.result)
       IN /\ e.status = PyStr(Chars("reviewed"))
          /\ e.date_added = PyStr(Chars("2026-01-01"))
          /\ e.note = PyStr(Chars("checked"))
          /\ e.title = called.article.title
          /\ e.tier = called.tier

\* C29: mark_processed with an id that is not in the backlog raises
\* KeyError and changes neither the backlog nor its file; remove with an id
\* that is not in the backlog raises nothing, changes nothing and writes
\* nothing.
UnknownIdChangesNothing ==
    [][/\ called'.op = "mark_processed"
          /\ called'.article_id \notin backlog_ids(backlog)
          => /\ called'.result = Raise("KeyError")
             /\ backlog' = backlog
             /\ backlog_file' = backlog_file
       /\ called'.op = "remove" /\ called'.article_id \notin backlog_ids(backlog)
          => /\ called'.result = PyNone
             /\ backlog' = backlog
             /\ backlog_file' = backlog_file]_vars

\* remove on a manager that never saved: there is still no backlog file.
UnknownIdChangesNothingWitness ==
    /\ called.op = "remove"
    /\ called.result = PyNone
    /\ backlog = <<>>
    /\ backlog_file = Unset

(***************************************************************************)
(* The metadata fetcher.  cache maps a DOI to the day it was cached and    *)
(* the metadata cached; the cache file holds what the last save wrote.     *)
(* The clock now counts days; a reply is what one HTTP request gives.      *)
(***************************************************************************)
\* re.sub(r'<[^>]+>', '', abstract): a tag opens at a '<' that is followed
\* by a character other than '>' and, later, by a '>'; it ends at the first
\* such '>'
RECURSIVE strip_tags(_)
strip_tags(s) ==
    LET closes(i) == {j \in (i + 2)..Len(s) : s[j] = ">"}
        opens == {i \in 1..Len(s) :
                     s[i] = "<" /\ i < Len(s) /\ s[i + 1] # ">" /\ closes(i) # {}}
        i == CHOOSE o \in opens : \A k \in opens : o <= k
        j == CHOOSE c \in closes(i) : \A k \in closes(i) : c <= k
    IN IF opens = {} THEN s
       ELSE SubSeq(s, 1, i - 1) \o strip_tags(SubSeq(s, j + 1, Len(s)))

startswith(s, prefix) ==
    Len(prefix) <= Len(s) /\ SubSeq(s, 1, Len(prefix)) = prefix

RECURSIVE lstrip_colons(_)
lstrip_colons(s) ==
    IF s # <<>> /\ Head(s) = ":" THEN lstrip_colons(Tail(s)) ELSE s

RECURSIVE str_strip(_)
str_strip(s) ==
    IF s # <<>> /\ IsSpaceChar(Head(s)) THEN str_strip(Tail(s))
    ELSE IF s # <<>> /\ IsSpaceChar(s[Len(s)])
         THEN str_strip(SubSeq(s, 1, Len(s) - 1))
         ELSE s

AbstractPrefixes ==
    <<Chars("Abstract"), Chars("ABSTRACT"), Chars("Summary"), Chars("SUMMARY")>>

\* the loop over the prefixes: each prefix is tried once, in order, on what
\* the earlier ones left
RECURSIVE strip_prefixes(_, _)
strip_prefixes(s, prefixes) ==
    IF prefixes = <<>> THEN s
    ELSE LET prefix == Head(prefixes)
         IN strip_prefixes(
                IF startswith(s, prefix)
                THEN str_strip(lstrip_colons(SubSeq(s, Len(prefix) + 1, Len(s))))
                ELSE s,
                Tail(prefixes))

_clean_abstract(abstract) ==
    IF ~Truthy(abstract) THEN PyNone
    ELSE LET untagged == strip_tags(abstract.v)
             unprefixed == strip_prefixes(untagged, AbstractPrefixes)
             cleaned == str_join(<<" ">>, str_split(unprefixed))
         IN IF cleaned # <<>> THEN PyStr(cleaned) ELSE PyNone

MinSummary == 50
MinAbstract == 100

_extract_abstract_from_rss_summary(summary) ==
    IF ~Truthy(summary) \/ Len(summary.v) < MinSummary THEN PyNone
    ELSE LET cleaned == _clean_abstract(summary)
         IN IF ~Truthy(cleaned) THEN PyNone
            ELSE IF /\ Len(cleaned.v) > MinAbstract
                    /\ ~startswith(cleaned.v, Chars("Volume "))
                    /\ ~startswith(cleaned.v, Chars("Publication date"))
                 THEN cleaned
                 ELSE PyNone

\* f"{given} {family}".strip() for each author with a family name
RECURSIVE _extract_authors(_)
_extract_authors(author_list) ==
    IF author_list = <<>> THEN <<>>
    ELSE LET author == Head(author_list)
             given == dict_get(author, "given", PyStr(<<>>))
             family == dict_get(author, "family", PyStr(<<>>))
             rest == _extract_authors(Tail(author_list))
         IN IF Truthy(family)
            THEN <<PyStr(str_strip(given.v \o <<" ">> \o family.v))>> \o rest
            ELSE rest

\* the decimal digits of a natural number
RECURSIVE decimal(_)
decimal(n) ==
    IF n < 10 THEN <<DigitChars[n + 1]>>
    ELSE decimal(n \div 10) \o <<DigitChars[(n % 10) + 1]>>

\* f"{n:0{width}d}"
RECURSIVE zero_padded(_, _)
zero_padded(digits, width) ==
    IF Len(digits) >= width THEN digits
    ELSE zero_padded(<<"0">> \o digits, width)

_format_date(date_parts) ==
    LET year == zero_padded(decimal(date_parts[1]), 4)
        month == zero_padded(decimal(date_parts[2]), 2)
        day == zero_padded(decimal(date_parts[3]), 2)
    IN IF Len(date_parts) = 1 THEN year
       ELSE IF Len(date_parts) = 2 THEN year \o <<"-">> \o month
       ELSE IF Len(date_parts) >= 3
            THEN year \o <<"-">> \o month \o <<"-">> \o day
            ELSE <<>>

\* what requests.get gives: an exception, or a response with a status code
\* and a body that is JSON or is not
RequestException == [t |-> "raise", v |-> "RequestException"]
Response(status_code, body) ==
    [t |-> "response", status_code |-> status_code, body |-> body]
NotJson == [t |-> "text"]
StatusOk == 200

\* data.get(key, [None])[0]
first_of(data, key) == dict_get(data, key, PyList(<<PyNone>>)).v[1]

\* the try block of _fetch_from_crossref for a JSON body of status 200
crossref_metadata(data) ==
    LET metadata ==
            [title |-> first_of(data, "title"),
             abstract |-> _clean_abstract(dict_get(data, "abstract", PyNone)),
             authors |-> PyList(_extract_authors(dict_get(data, "author", <<>>))),
             keywords |-> dict_get(data, "subject", PyList(<<>>)),
             journal |-> first_of(data, "container-title")]
        published ==
            dict_get(data, "published", dict_get(data, "published-print", <<>>))
        date_parts == dict_get(published, "date-parts", <<<<>>>>)[1]
    IN IF ("published" \in DOMAIN data \/ "published-print" \in DOMAIN data)
          /\ date_parts # <<>>
       THEN ("publication_date" :> PyStr(_format_date(date_parts))) @@ metadata
       ELSE metadata

\* what makes the try block of _fetch_from_crossref raise: a body that is
\* not JSON or has no message, or an empty title or container-title list
crossref_raises(reply) ==
    \/ reply.body = NotJson
    \/ "message" \notin DOMAIN reply.body.v
    \/ \E key \in {"title", "container-title"} :
          /\ key \in DOMAIN reply.body.v.message
          /\ reply.body.v.message[key].v = <<>>

_fetch_from_crossref_raising(reply) ==
    IF reply.t = "raise" THEN reply
    ELSE IF reply.status_code # StatusOk THEN PyNone
    ELSE IF crossref_raises(reply) THEN PyNone
    ELSE crossref_metadata(reply.body.v.message)

_fetch_from_crossref(reply) ==
    IF reply.t = "raise" THEN PyNone
    ELSE IF reply.status_code # StatusOk THEN PyNone
    ELSE IF crossref_raises(reply) THEN PyNone
    ELSE crossref_metadata(reply.body.v.message)

display_names(items) == [i \in 1..Len(items) |-> items[i].display_name]

\* the try block of _fetch_from_openalex for a JSON body of status 200
openalex_metadata(data) ==
    LET source == dict_get(dict_get(data, "primary_location", <<>>), "source", <<>>)
        metadata ==
            [title |-> dict_get(data, "title", PyNone),
             abstract |-> _clean_abstract(dict_get(data, "abstract", PyNone)),
             authors |->
                 PyList([i \in 1..Len(dict_get(data, "authorships", <<>>)) |->
                            data.authorships[i].author.display_name]),
             keywords |-> PyList(display_names(dict_get(data, "keywords", <<>>))),
             journal |-> dict_get(source, "display_name", PyNone)]
    IN IF Truthy(dict_get(data, "publication_date", PyNone))
       THEN ("publication_date" :> data.publication_date) @@ metadata
       ELSE metadata

_fetch_from_openalex(reply) ==
    IF reply.t = "raise" THEN PyNone
    ELSE IF reply.status_code # StatusOk THEN PyNone
    ELSE IF reply.body = NotJson THEN PyNone
    ELSE openalex_metadata(reply.body.v)

DaysInJanuary == 31

\* datetime.now().isoformat() at nine o'clock of a day of January or
\* February 2026, the days counted from 1 January
isoformat(day) ==
    LET month == IF day < DaysInJanuary THEN 1 ELSE 2
        day_of_month == IF day < DaysInJanuary THEN day + 1
                        ELSE day - DaysInJanuary + 1
    IN Chars("2026-") \o zero_padded(decimal(month), 2) \o <<"-">>
       \o zero_padded(decimal(day_of_month), 2) \o Chars("T09:00:00")

DaysSince2000 == 9497

digit_value(c) == (CHOOSE i \in 1..10 : DigitChars[i] = c) - 1

\* datetime.fromisoformat, as days since 1 January 2026, for the default
\* '2000-01-01' and for the dates of January and February 2026
fromisoformat(s) ==
    LET month == 10 * digit_value(s[6]) + digit_value(s[7])
        day_of_month == 10 * digit_value(s[9]) + digit_value(s[10])
    IN IF s = Chars("2000-01-01") THEN 0 - DaysSince2000
       ELSE (month - 1) * DaysInJanuary + day_of_month - 1

CacheDays == 30

is_fresh_through(cached, now_) ==
    now_ - fromisoformat(dict_get(cached, "cached_at", PyStr(Chars("2000-01-01"))).v)
        <= CacheDays

\* datetime.now() - cache_date < timedelta(days=30)
is_fresh(cached, now_) ==
    now_ - fromisoformat(dict_get(cached, "cached_at", PyStr(Chars("2000-01-01"))).v)
        < CacheDays

CacheEntry(cached_at, metadata) == [cached_at |-> cached_at, metadata |-> metadata]

\* json.dump(self.cache, f): the file holds the cache as it is
CacheJson(c) == [t |-> "json", v |-> c]

\* a missing or unreadable file starts an empty cache
_load_cache(file) == IF file.t = "unset" THEN <<>> ELSE file.v

ExampleDoi == Chars("10.1234/example.123")

LongSummary ==
    Chars("<p>Abstract: This paper reports a survey of renters in Rotorua ")
    \o Chars("and their experience of insecure tenure and of rising rents.</p>")

\* articles as the RSS fetcher gives them, and one that already carries a
\* geography field
FetchArticles ==
    { [title |-> PyStr(Chars("Housing policy in Auckland")),
       url |-> PyStr(Chars("https://example.com/article/123")),
       doi |-> PyStr(ExampleDoi),
       summary |-> PyStr(LongSummary)],
      [title |-> PyStr(Chars("Housing policy in Auckland")),
       url |-> PyStr(Chars("https://example.com/article/123")),
       doi |-> PyStr(ExampleDoi),
       summary |-> PyStr(<<>>),
       geography |-> PyList(<<"Wellington">>)],
      [title |-> PyStr(Chars("Letters from private landlords")),
       url |-> PyStr(Chars("https://example.com/article/124")),
       doi |-> PyNone,
       summary |-> PyStr(Chars("Volume 12, Issue 3"))] }

CrossrefMessage ==
    [title |-> PyList(<<PyStr(Chars("Tenure insecurity among renters"))>>),
     abstract |-> PyStr(Chars("<jats:p>Abstract: Interviews with tenants.</jats:p>")),
     author |-> <<[given |-> PyStr(Chars("Jane")), family |-> PyStr(Chars("Doe"))],
                  [given |-> PyStr(Chars("John"))]>>,
     subject |-> PyList(<<PyStr(Chars("Housing"))>>),
     published |-> ("date-parts" :> <<<<2026, 1, 15>>>>)]
    @@ ("container-title" :> PyList(<<PyStr(Chars("Housing Studies"))>>))

Without(d, key) == [k \in DOMAIN d \ {key} |-> d[k]]

CrossrefReplies ==
    { RequestException,
      Response(404, NotJson),
      Response(StatusOk, NotJson),
      Response(StatusOk, PyDict([message |-> CrossrefMessage])),
      Response(StatusOk, PyDict([message |-> Without(CrossrefMessage, "abstract")])),
      Response(StatusOk, PyDict([message |-> Without(CrossrefMessage, "title")])) }

OpenAlexWork ==
    [title |-> PyStr(Chars("Tenure insecurity among renters")),
     abstract |-> PyStr(Chars("Interviews with tenants.")),
     authorships |-> <<[author |-> [display_name |-> PyStr(Chars("Jane Doe"))]]>>,
     keywords |-> <<[display_name |-> PyStr(Chars("Housing"))]>>,
     primary_location |-> [source |-> [display_name |-> PyStr(Chars("Housing Studies"))]],
     publication_date |-> PyStr(Chars("2026-01-15"))]

OpenAlexReplies ==
    { RequestException,
      Response(404, NotJson),
      Response(StatusOk, NotJson),
      Response(StatusOk, PyDict(OpenAlexWork)),
      Response(StatusOk, PyDict([OpenAlexWork EXCEPT !.title = PyNone])) }

\* the days the clock reads
ClockDays == {0, 1, 29, 30, 31}

\* a cache file of an earlier run: an entry without extracted fields, with
\* and without its cached_at
EarlierCacheFiles ==
    LET metadata == [abstract |-> PyStr(Chars("Cached abstract")),
                     authors |-> PyList(<<PyStr(Chars("Jane Smith"))>>),
                     keywords |-> PyList(<<PyStr(Chars("urban"))>>),
                     journal |-> PyStr(Chars("Housing Studies"))]
    IN { CacheJson(ExampleDoi :> CacheEntry(PyStr(isoformat(0)), metadata)),
         CacheJson(ExampleDoi :> [metadata |-> metadata]) }

\* the fields of a record that extract_all reads
SourceFields == {"title", "keywords", "abstract"}
read_fields(a) == [k \in DOMAIN a \cap SourceFields |-> a[k]]

EarlierMetadata == {file.v[ExampleDoi].metadata : file \in EarlierCacheFiles}

\* the no-metadata fields of lines 143-148
fallback_fields(a) ==
    [abstract |-> _extract_abstract_from_rss_summary(dict_get(a, "summary", PyNone)),
     authors |-> PyList(<<>>),
     keywords |-> PyList(<<>>)]

\* the records extract_all is called with: an article under the metadata of
\* an API, of an earlier cache file, or of the fallback
ReadRecords ==
    LET found == ({_fetch_from_crossref(r) : r \in CrossrefReplies}
                  \cup {_fetch_from_openalex(r) : r \in OpenAlexReplies}) \ {PyNone}
    IN UNION {{read_fields(m @@ a) : m \in found \cup EarlierMetadata}
              \cup {read_fields(fallback_fields(a) @@ a)} : a \in FetchArticles}

RECURSIVE tabulated(_)
tabulated(records) ==
    IF records = {} THEN <<>>
    ELSE LET a == CHOOSE r \in records : TRUE
         IN (a :> extract_all(a)) @@ tabulated(records \ {a})

\* extract_all, computed once for each record of ReadRecords
ExtractAllOf == tabulated(ReadRecords)

\* extract_all of a record fetch_metadata reads: every such record is in
\* ReadRecords
extract_all_of(a) == ExtractAllOf[read_fields(a)]

Tags(found) ==
    [geography |-> PyList(found.v.geography),
     methods |-> PyList(found.v.methods),
     stakeholders |-> PyList(found.v.stakeholders)]

Fetch(result, cache_, saved, queried_) ==
    [result |-> result, cache |-> cache_, saved |-> saved, queried |-> queried_]

Query(api, reply, returned) == [api |-> api, reply |-> reply, returned |-> returned]

\* lines 91-108: the cache holds a fresh entry for the DOI
cache_hit(a, cache_, now_) ==
    LET doi == dict_get(a, "doi", PyNone)
    IN /\ Truthy(doi)
       /\ doi.v \in DOMAIN cache_
       /\ is_fresh(cache_[doi.v], now_)

\* lines 100-108: the cached entry holds no tags yet
tag_cached(doi, merged, found, cache_) ==
    IF found.t = "raise" THEN Fetch(found, cache_, FALSE, <<>>)
    ELSE Fetch(PyDict(Tags(found) @@ merged),
               [cache_ EXCEPT ![doi].metadata = Tags(found) @@ @],
               TRUE, <<>>)

from_cache(a, cache_) ==
    LET doi == a.doi.v
        merged == cache_[doi].metadata @@ a
    IN IF Taxonomies \cap DOMAIN merged # {} THEN Fetch(PyDict(merged), cache_, FALSE, <<>>)
       ELSE tag_cached(doi, merged, extract_all_of(merged), cache_)

\* lines 111-119: the requests made for the article, in order
api_queries(a, crossref, openalex) ==
    IF ~Truthy(dict_get(a, "doi", PyNone)) THEN <<>>
    ELSE LET metadata == _fetch_from_crossref(crossref)
             first == <<Query("crossref", crossref, metadata)>>
         IN IF metadata = PyNone \/ ~Truthy(dict_get(metadata, "abstract", PyNone))
            THEN first \o <<Query("openalex", openalex, _fetch_from_openalex(openalex))>>
            ELSE first

\* lines 124-138: the merged record is tagged and, under a DOI, cached
tag_merged(doi, merged, found, cache_, now_, queried_) ==
    IF found.t = "raise" THEN Fetch(found, cache_, FALSE, queried_)
    ELSE LET tagged == Tags(found) @@ merged
         IN IF Truthy(doi)
            THEN Fetch(PyDict(tagged),
                       (doi.v :> CacheEntry(PyStr(isoformat(now_)), tagged)) @@ cache_,
                       TRUE, queried_)
            ELSE Fetch(PyDict(tagged), cache_, FALSE, queried_)

\* lines 122-138: metadata was found
from_api(a, metadata, cache_, now_, queried_) ==
    tag_merged(dict_get(a, "doi", PyNone), metadata @@ a,
               extract_all_of(metadata @@ a), cache_, now_, queried_)

\* lines 149-151: the fallback record is tagged
tag_fallback(result, found, cache_, queried_) ==
    IF found.t = "raise" THEN Fetch(found, cache_, FALSE, queried_)
    ELSE Fetch(PyDict(Tags(found) @@ result), cache_, FALSE, queried_)

\* lines 140-151: no metadata was found
fallback(a, cache_, queried_) ==
    LET title == dict_get(a, "title", PyStr(Chars("Unknown")))
    IN IF title.t \notin {"str", "list"} THEN Fetch(Raise("TypeError"), cache_, FALSE, queried_)
       ELSE tag_fallback(fallback_fields(a) @@ a,
                         extract_all_of(fallback_fields(a) @@ a), cache_, queried_)

fetch_metadata_keeping_crossref(a, cache_, now_, crossref, openalex) ==
    LET queried_ == api_queries(a, crossref, openalex)
        found == {i \in 1..Len(queried_) : queried_[i].returned # PyNone}
        metadata == IF found = {} THEN PyNone
                    ELSE queried_[CHOOSE i \in found : \A j \in found : j <= i].returned
    IN IF cache_hit(a, cache_, now_) THEN from_cache(a, cache_)
       ELSE IF metadata # PyNone THEN from_api(a, metadata, cache_, now_, queried_)
       ELSE fallback(a, cache_, queried_)

fetch_metadata(a, cache_, now_, crossref, openalex) ==
    LET queried_ == api_queries(a, crossref, openalex)
        metadata == IF queried_ = <<>> THEN PyNone
                    ELSE queried_[Len(queried_)].returned
    IN IF cache_hit(a, cache_, now_) THEN from_cache(a, cache_)
       ELSE IF metadata # PyNone THEN from_api(a, metadata, cache_, now_, queried_)
       ELSE fallback(a, cache_, queried_)

InitFetch ==
    /\ cache_file \in {Unset} \cup EarlierCacheFiles
    /\ cache = _load_cache(cache_file)
    /\ now = 0
    /\ queried = <<>>
    /\ fetched = Unset
    /\ text = Unset
    /\ NormIdle
    /\ MatchIdle
    /\ ExtractIdle
    /\ RankIdle
    /\ DedupIdle
    /\ BacklogIdle

FetchOthers ==
    <<normVars, matchVars, tags, extracted, rankVars, dedupVars, backlogVars>>

RecreateFetcher ==
    /\ cache' = _load_cache(cache_file)
    /\ article' = Unset
    /\ queried' = <<>>
    /\ fetched' = Unset
    /\ UNCHANGED <<FetchOthers, cache_file, now>>

\* time passes between two calls
Tick ==
    /\ \E later \in ClockDays : later > now /\ now' = later
    /\ article' = Unset
    /\ queried' = <<>>
    /\ fetched' = Unset
    /\ UNCHANGED <<FetchOthers, cache, cache_file>>

\* lines 91-95 and 113: Crossref is requested for a DOI without a fresh entry
requests_crossref(a, cache_, now_) ==
    Truthy(dict_get(a, "doi", PyNone)) /\ ~cache_hit(a, cache_, now_)

\* line 118: OpenAlex is requested when Crossref gave nothing or no abstract
requests_openalex(crossref) ==
    LET metadata == _fetch_from_crossref(crossref)
    IN metadata = PyNone \/ ~Truthy(dict_get(metadata, "abstract", PyNone))

\* the replies to draw from: one stands for all when no request is made
RequestedFrom(replies, requested) ==
    IF requested THEN replies ELSE {RequestException}

FetchMetadata ==
    /\ \E a \in FetchArticles :
       \E crossref \in RequestedFrom(CrossrefReplies, requests_crossref(a, cache, now)),
          openalex \in RequestedFrom(OpenAlexReplies, requests_crossref(a, cache, now)) :
          /\ requests_openalex(crossref) \/ openalex = RequestException
          /\ \E fetch \in {fetch_metadata(a, cache, now, crossref, openalex)} :
                /\ article' = a
                /\ fetched' = fetch.result
                /\ queried' = fetch.queried
                /\ cache' = fetch.cache
                /\ cache_file' = IF fetch.saved THEN CacheJson(fetch.cache)
                                 ELSE cache_file
    /\ UNCHANGED <<FetchOthers, now>>

NextFetch == RecreateFetcher \/ Tick \/ FetchMetadata

SpecFetch == InitFetch /\ [][NextFetch]_vars

HasDoi(a) == a.doi # PyNone /\ a.doi.v # <<>>

\* the cache holds an entry for the DOI that was cached on a day less than
\* CacheDays before today
HasFreshEntry(c, doi, today) ==
    /\ doi \in DOMAIN c
    /\ "cached_at" \in DOMAIN c[doi]
    /\ \E day \in 0..today :
          c[doi].cached_at = PyStr(isoformat(day)) /\ today - day < CacheDays

\* a request that fails: an exception, a status other than 200, or a reply
\* that is not JSON
Failing(reply) ==
    \/ reply = RequestException
    \/ reply.t = "response"
       /\ (reply.status_code # StatusOk \/ reply.body = NotJson)

\* C21: for an article with a DOI, fetch_metadata queries no API when the
\* cache holds an entry for the DOI cached less than 30 days ago, and then
\* returns the article merged with the cached metadata, the cached fields
\* overriding the article's; otherwise (no entry, or one of 30 days or
\* more) an API is queried.
FreshCacheAnswersWithoutApi ==
    [][(fetched' # Unset /\ HasDoi(article')) =>
          LET doi == article'.doi.v
          IN IF HasFreshEntry(cache, doi, now)
             THEN LET metadata == cache[doi].metadata
                  IN /\ queried' = <<>>
                     /\ fetched'.t = "dict"
                     /\ \A k \in DOMAIN metadata :
                           k \in DOMAIN fetched'.v /\ fetched'.v[k] = metadata[k]
                     /\ \A k \in DOMAIN article' \ DOMAIN metadata :
                           k \in DOMAIN fetched'.v /\ fetched'.v[k] = article'[k]
                     /\ DOMAIN fetched'.v \subseteq
                           DOMAIN metadata \cup DOMAIN article' \cup Taxonomies
             ELSE /\ queried' # <<>>
                  /\ queried'[1].api = "crossref"]_vars

\* An entry cached on day 0 answers on day 29 without a request, and the
\* title it holds replaces the title of the article.
FreshCacheAnswersWithoutApiWitness ==
    /\ fetched # Unset
    /\ fetched.t = "dict"
    /\ queried = <<>>
    /\ now = 29
    /\ article.doi = PyStr(ExampleDoi)
    /\ ExampleDoi \in DOMAIN cache
    /\ dict_get(cache[ExampleDoi], "cached_at", PyNone) = PyStr(isoformat(0))
    /\ article.title = PyStr(Chars("Housing policy in Auckland"))
    /\ fetched.v.title = PyStr(Chars("Tenure insecurity among renters"))

\* C22: a failing Crossref or OpenAlex request (exception, status other
\* than 200, reply that is not JSON) makes the fetch function return None,
\* and fetch_metadata still returns a record with abstract, authors and
\* keywords.
FailedRequestsAreAbsorbed ==
    fetched # Unset =>
        \A i \in 1..Len(queried) :
            Failing(queried[i].reply) =>
                /\ queried[i].returned = PyNone
                /\ fetched.t = "dict"
                /\ {"abstract", "authors", "keywords"} \subseteq DOMAIN fetched.v

\* Crossref raises and OpenAlex answers with something that is not JSON:
\* the record returned has the abstract of the RSS summary and no authors.
FailedRequestsAreAbsorbedWitness ==
    /\ fetched # Unset
    /\ Len(queried) = 2
    /\ queried[1].api = "crossref"
    /\ queried[1].reply = RequestException
    /\ queried[2].api = "openalex"
    /\ queried[2].reply = Response(StatusOk, NotJson)
    /\ fetched.t = "dict"
    /\ fetched.v.abstract.t = "str"
    /\ fetched.v.authors = PyList(<<>>)

\* C25 as stated: every record fetch_metadata returns, on each path and for
\* every input article, has the three fields geography, methods and
\* stakeholders.
EveryRecordHasAllTags ==
    (fetched # Unset /\ fetched.t = "dict") =>
        Taxonomies \subseteq DOMAIN fetched.v

\* C26 as stated: every record fetch_metadata returns for an article with a
\* non-empty string title has a string title, whatever the API or the cache
\* supplies.
ReturnedTitleIsString ==
    ( /\ fetched # Unset
      /\ fetched.t = "dict"
      /\ article.title.t = "str"
      /\ article.title.v # <<>> )
    => /\ "title" \in DOMAIN fetched.v
       /\ fetched.v.title.t = "str"

\* Crossref answers with a record without abstract
AnswersWithoutAbstract(reply) ==
    /\ reply.t = "response"
    /\ reply.status_code = StatusOk
    /\ reply.body # NotJson
    /\ "abstract" \notin DOMAIN reply.body.v.message

\* C27: when Crossref returns metadata without abstract and the OpenAlex
\* request yields nothing, fetch_metadata returns the no-metadata fallback
\* (authors and keywords empty, abstract from the RSS summary or None, the
\* Crossref title and journal dropped) and writes no cache entry.
CrossrefWithoutAbstractIsDiscarded ==
    [][( /\ fetched' # Unset
         /\ Len(queried') = 2
         /\ AnswersWithoutAbstract(queried'[1].reply)
         /\ Failing(queried'[2].reply) )
       => /\ fetched'.t = "dict"
          /\ fetched'.v.authors = PyList(<<>>)
          /\ fetched'.v.keywords = PyList(<<>>)
          /\ fetched'.v.abstract =
                _extract_abstract_from_rss_summary(article'.summary)
          /\ fetched'.v.title = article'.title
          /\ "journal" \notin DOMAIN fetched'.v
          /\ cache' = cache
          /\ cache_file' = cache_file]_vars

\* Crossref gives a title and no abstract, OpenAlex gives 404: the record
\* keeps the title of the article, takes its abstract from the summary, and
\* there is no cache entry and no cache file.
CrossrefWithoutAbstractIsDiscardedWitness ==
    /\ fetched # Unset
    /\ Len(queried) = 2
    /\ AnswersWithoutAbstract(queried[1].reply)
    /\ queried[1].returned # PyNone
    /\ queried[2].reply = Response(404, NotJson)
    /\ fetched.t = "dict"
    /\ fetched.v.title = PyStr(Chars("Housing policy in Auckland"))
    /\ fetched.v.abstract.t = "str"
    /\ cache = <<>>
    /\ cache_file = Unset

====
